---- MODULE Spec2Model ----
(***************************************************************************)
(* Units of the OME metadata model (src/src/ome.rs, src/src/py.rs): the    *)
(* seven Units* enums, their textual forms (derive Debug / FromStr, serde  *)
(* Serialize / Deserialize), the Convert trait and the Python unit         *)
(* classes.                                                                *)
(*                                                                         *)
(* Numbers.  f64 values are modelled as exact rationals n/d * 2^t * 5^f in *)
(* a normal form (n and d coprime to each other and to 10), so that equal  *)
(* quantities are equal records.  Rounding of f64 arithmetic is not        *)
(* modelled; overflow to infinity cannot happen for the values used.       *)
(*                                                                         *)
(* Text.  A &str / String is a sequence of one-character strings, so that  *)
(* comparison is character by character and case or padding can differ.    *)
(*                                                                         *)
(* Enum values are named by their Rust identifier ("um", "Pixel"); the     *)
(* value UnitsTime::r#as, declared with a raw identifier, is named "as".   *)
(***************************************************************************)
EXTENDS Integers, Sequences, FiniteSets, TLC

\* Bound of the model: values passed to convert are the integers -MaxValue..MaxValue.
MaxValue == 1
\* Bound of the model: number of blanks put before or after a tested text.
MaxPad == 1

-----------------------------------------------------------------------------
\* Exact arithmetic standing for f64

RECURSIVE Gcd(_, _)
Gcd(a, b) == IF b = 0 THEN a ELSE Gcd(b, a % b)

Abs(n) == IF n < 0 THEN -n ELSE n

RECURSIVE Pow(_, _)
Pow(b, k) == IF k = 0 THEN 1 ELSE b * Pow(b, k - 1)

Min(a, b) == IF a < b THEN a ELSE b

\* normal form of n/d * 2^t * 5^f, d > 0
RECURSIVE Norm(_, _, _, _)
Norm(n, d, t, f) ==
  IF n = 0 THEN [n |-> 0, d |-> 1, t |-> 0, f |-> 0]
  ELSE LET g == Gcd(Abs(n), d) IN
    IF g > 1 THEN Norm(n \div g, d \div g, t, f)
    ELSE IF n % 2 = 0 THEN Norm(n \div 2, d, t + 1, f)
    ELSE IF n % 5 = 0 THEN Norm(n \div 5, d, t, f + 1)
    ELSE IF d % 2 = 0 THEN Norm(n, d \div 2, t - 1, f)
    ELSE IF d % 5 = 0 THEN Norm(n, d \div 5, t, f - 1)
    ELSE [n |-> n, d |-> d, t |-> t, f |-> f]

\* Dec with the exponent of the literal lost: m
Dec_mantissa(m, e) == Norm(m, 1, 0, 0)

\* Dec with the sign of the exponent lost: m * 10^(-e)
Dec_inverted(m, e) == Norm(m, 1, -e, -e)

\* Dec with the sign of the literal lost: -m * 10^e
Dec_negated(m, e) == Norm(-m, 1, e, e)

\* the decimal literal m * 10^e, e.g. 2.54e-5 is Dec(254, -7)
Dec(m, e) == Norm(m, 1, e, e)

RNeg(a) == [n |-> -a.n, d |-> a.d, t |-> a.t, f |-> a.f]

\* f64 multiplication; factors are cancelled crosswise before multiplying
RMul(a, b) ==
  IF a.n = 0 \/ b.n = 0 THEN Dec(0, 0)
  ELSE LET g1 == Gcd(Abs(a.n), b.d)
           g2 == Gcd(Abs(b.n), a.d)
       IN Norm((a.n \div g1) * (b.n \div g2), (a.d \div g2) * (b.d \div g1), a.t + b.t, a.f + b.f)

\* reciprocal of a nonzero number
RInv(b) ==
  IF b.n < 0 THEN [n |-> -b.d, d |-> -b.n, t |-> -b.t, f |-> -b.f]
  ELSE [n |-> b.d, d |-> b.n, t |-> -b.t, f |-> -b.f]

\* f64 division by a nonzero number
RDiv(a, b) == RMul(a, RInv(b))

\* f64 addition
RAdd(a, b) ==
  IF a.n = 0 THEN b
  ELSE IF b.n = 0 THEN a
  ELSE LET t == Min(a.t, b.t)
           f == Min(a.f, b.f)
       IN Norm(a.n * Pow(2, a.t - t) * Pow(5, a.f - f) * b.d
                 + b.n * Pow(2, b.t - t) * Pow(5, b.f - f) * a.d,
               a.d * b.d, t, f)

\* f64 subtraction
RSub(a, b) == RAdd(a, RNeg(b))

-----------------------------------------------------------------------------
\* Result<T, E>

Ok(v) == [ok |-> TRUE, val |-> v]
Err(e) == [ok |-> FALSE, err |-> e]

\* anyhow!("...")
anyhow(msg) == [type |-> "anyhow::Error", msg |-> msg, arg |-> <<>>]

\* pub enum Error of error.rs, a file that lib.rs does not declare as a module:
\* Error::SizeOfUnknown(String), #[error("size of {0} is unknown")]
Error_SizeOfUnknown(s) ==
  [type |-> "Error::SizeOfUnknown", msg |-> "size of {} is unknown", arg |-> s]

\* Error::TemparatureConversion, #[error("no conversion to K by multiplication only")]
Error_TemparatureConversion ==
  [type |-> "Error::TemparatureConversion",
   msg |-> "no conversion to K by multiplication only", arg |-> <<>>]

-----------------------------------------------------------------------------
\* The Units* enums

\* #[serde(rename = "...")] is absent
NoRename == <<>>

\* one declared variant: its identifier, the identifier's spelling, and the
\* text of its #[serde(rename = "...")] attribute if it has one
Variant(ident, spelling, rename) ==
  [ident |-> ident, spelling |-> spelling, rename |-> rename, raw |-> FALSE]

\* a variant declared with a raw identifier, r#ident
RawVariant(ident, spelling, rename) ==
  [ident |-> ident, spelling |-> spelling, rename |-> rename, raw |-> TRUE]

\* src/src/ome.rs:2479-2503  pub enum UnitsElectricPotential
UnitsElectricPotential_decl ==
  <<
    Variant("YV", <<"Y", "V">>, NoRename),
    Variant("ZV", <<"Z", "V">>, NoRename),
    Variant("EV", <<"E", "V">>, NoRename),
    Variant("PV", <<"P", "V">>, NoRename),
    Variant("TV", <<"T", "V">>, NoRename),
    Variant("GV", <<"G", "V">>, NoRename),
    Variant("MV", <<"M", "V">>, NoRename),
    Variant("kV", <<"k", "V">>, NoRename),
    Variant("hV", <<"h", "V">>, NoRename),
    Variant("daV", <<"d", "a", "V">>, NoRename),
    Variant("V", <<"V">>, NoRename),
    Variant("dV", <<"d", "V">>, NoRename),
    Variant("cV", <<"c", "V">>, NoRename),
    Variant("mV", <<"m", "V">>, NoRename),
    Variant("uV", <<"u", "V">>, <<"µ", "V">>),
    Variant("nV", <<"n", "V">>, NoRename),
    Variant("pV", <<"p", "V">>, NoRename),
    Variant("fV", <<"f", "V">>, NoRename),
    Variant("aV", <<"a", "V">>, NoRename),
    Variant("zV", <<"z", "V">>, NoRename),
    Variant("yV", <<"y", "V">>, NoRename)
  >>

\* src/src/ome.rs:2504-2528  pub enum UnitsFrequency
UnitsFrequency_decl ==
  <<
    Variant("YHz", <<"Y", "H", "z">>, NoRename),
    Variant("ZHz", <<"Z", "H", "z">>, NoRename),
    Variant("EHz", <<"E", "H", "z">>, NoRename),
    Variant("PHz", <<"P", "H", "z">>, NoRename),
    Variant("THz", <<"T", "H", "z">>, NoRename),
    Variant("GHz", <<"G", "H", "z">>, NoRename),
    Variant("MHz", <<"M", "H", "z">>, NoRename),
    Variant("kHz", <<"k", "H", "z">>, NoRename),
    Variant("hHz", <<"h", "H", "z">>, NoRename),
    Variant("daHz", <<"d", "a", "H", "z">>, NoRename),
    Variant("Hz", <<"H", "z">>, NoRename),
    Variant("dHz", <<"d", "H", "z">>, NoRename),
    Variant("cHz", <<"c", "H", "z">>, NoRename),
    Variant("mHz", <<"m", "H", "z">>, NoRename),
    Variant("uHz", <<"u", "H", "z">>, <<"µ", "H", "z">>),
    Variant("nHz", <<"n", "H", "z">>, NoRename),
    Variant("pHz", <<"p", "H", "z">>, NoRename),
    Variant("fHz", <<"f", "H", "z">>, NoRename),
    Variant("aHz", <<"a", "H", "z">>, NoRename),
    Variant("zHz", <<"z", "H", "z">>, NoRename),
    Variant("yHz", <<"y", "H", "z">>, NoRename)
  >>

\* src/src/ome.rs:2529-2579  pub enum UnitsLength
UnitsLength_decl ==
  <<
    Variant("Ym", <<"Y", "m">>, NoRename),
    Variant("Zm", <<"Z", "m">>, NoRename),
    Variant("Em", <<"E", "m">>, NoRename),
    Variant("Pm", <<"P", "m">>, NoRename),
    Variant("Tm", <<"T", "m">>, NoRename),
    Variant("Gm", <<"G", "m">>, NoRename),
    Variant("Mm", <<"M", "m">>, NoRename),
    Variant("km", <<"k", "m">>, NoRename),
    Variant("hm", <<"h", "m">>, NoRename),
    Variant("dam", <<"d", "a", "m">>, NoRename),
    Variant("m", <<"m">>, NoRename),
    Variant("dm", <<"d", "m">>, NoRename),
    Variant("cm", <<"c", "m">>, NoRename),
    Variant("mm", <<"m", "m">>, NoRename),
    Variant("um", <<"u", "m">>, <<"µ", "m">>),
    Variant("nm", <<"n", "m">>, NoRename),
    Variant("pm", <<"p", "m">>, NoRename),
    Variant("fm", <<"f", "m">>, NoRename),
    Variant("am", <<"a", "m">>, NoRename),
    Variant("zm", <<"z", "m">>, NoRename),
    Variant("ym", <<"y", "m">>, NoRename),
    Variant("A", <<"A">>, <<"Å">>),
    Variant("Thou", <<"T", "h", "o", "u">>, <<"t", "h", "o", "u">>),
    Variant("Li", <<"L", "i">>, <<"l", "i">>),
    Variant("In", <<"I", "n">>, <<"i", "n">>),
    Variant("Ft", <<"F", "t">>, <<"f", "t">>),
    Variant("Yd", <<"Y", "d">>, <<"y", "d">>),
    Variant("Mi", <<"M", "i">>, <<"m", "i">>),
    Variant("Ua", <<"U", "a">>, <<"u", "a">>),
    Variant("Ly", <<"L", "y">>, <<"l", "y">>),
    Variant("Pc", <<"P", "c">>, <<"p", "c">>),
    Variant("Pt", <<"P", "t">>, <<"p", "t">>),
    Variant("Pixel", <<"P", "i", "x", "e", "l">>, <<"p", "i", "x", "e", "l">>),
    Variant("ReferenceFrame", <<"R", "e", "f", "e", "r", "e", "n", "c", "e", "F", "r", "a", "m", "e">>, <<"r", "e", "f", "e", "r", "e", "n", "c", "e", " ", "f", "r", "a", "m", "e">>)
  >>

\* src/src/ome.rs:2580-2604  pub enum UnitsPower
UnitsPower_decl ==
  <<
    Variant("YW", <<"Y", "W">>, NoRename),
    Variant("ZW", <<"Z", "W">>, NoRename),
    Variant("EW", <<"E", "W">>, NoRename),
    Variant("PW", <<"P", "W">>, NoRename),
    Variant("TW", <<"T", "W">>, NoRename),
    Variant("GW", <<"G", "W">>, NoRename),
    Variant("MW", <<"M", "W">>, NoRename),
    Variant("kW", <<"k", "W">>, NoRename),
    Variant("hW", <<"h", "W">>, NoRename),
    Variant("daW", <<"d", "a", "W">>, NoRename),
    Variant("W", <<"W">>, NoRename),
    Variant("dW", <<"d", "W">>, NoRename),
    Variant("cW", <<"c", "W">>, NoRename),
    Variant("mW", <<"m", "W">>, NoRename),
    Variant("uW", <<"u", "W">>, <<"µ", "W">>),
    Variant("nW", <<"n", "W">>, NoRename),
    Variant("pW", <<"p", "W">>, NoRename),
    Variant("fW", <<"f", "W">>, NoRename),
    Variant("aW", <<"a", "W">>, NoRename),
    Variant("zW", <<"z", "W">>, NoRename),
    Variant("yW", <<"y", "W">>, NoRename)
  >>

\* src/src/ome.rs:2605-2641  pub enum UnitsPressure
UnitsPressure_decl ==
  <<
    Variant("YPa", <<"Y", "P", "a">>, NoRename),
    Variant("ZPa", <<"Z", "P", "a">>, NoRename),
    Variant("EPa", <<"E", "P", "a">>, NoRename),
    Variant("PPa", <<"P", "P", "a">>, NoRename),
    Variant("TPa", <<"T", "P", "a">>, NoRename),
    Variant("GPa", <<"G", "P", "a">>, NoRename),
    Variant("MPa", <<"M", "P", "a">>, NoRename),
    Variant("kPa", <<"k", "P", "a">>, NoRename),
    Variant("hPa", <<"h", "P", "a">>, NoRename),
    Variant("daPa", <<"d", "a", "P", "a">>, NoRename),
    Variant("Pa", <<"P", "a">>, NoRename),
    Variant("dPa", <<"d", "P", "a">>, NoRename),
    Variant("cPa", <<"c", "P", "a">>, NoRename),
    Variant("mPa", <<"m", "P", "a">>, NoRename),
    Variant("uPa", <<"u", "P", "a">>, <<"µ", "P", "a">>),
    Variant("nPa", <<"n", "P", "a">>, NoRename),
    Variant("pPa", <<"p", "P", "a">>, NoRename),
    Variant("fPa", <<"f", "P", "a">>, NoRename),
    Variant("aPa", <<"a", "P", "a">>, NoRename),
    Variant("zPa", <<"z", "P", "a">>, NoRename),
    Variant("yPa", <<"y", "P", "a">>, NoRename),
    Variant("bar", <<"b", "a", "r">>, NoRename),
    Variant("Mbar", <<"M", "b", "a", "r">>, NoRename),
    Variant("kbar", <<"k", "b", "a", "r">>, NoRename),
    Variant("dbar", <<"d", "b", "a", "r">>, NoRename),
    Variant("cbar", <<"c", "b", "a", "r">>, NoRename),
    Variant("mbar", <<"m", "b", "a", "r">>, NoRename),
    Variant("atm", <<"a", "t", "m">>, NoRename),
    Variant("psi", <<"p", "s", "i">>, NoRename),
    Variant("Torr", <<"T", "o", "r", "r">>, NoRename),
    Variant("mTorr", <<"m", "T", "o", "r", "r">>, NoRename),
    Variant("mmHg", <<"m", "m", "H", "g">>, <<"m", "m", " ", "H", "g">>)
  >>

\* src/src/ome.rs:2642-2652  pub enum UnitsTemperature
UnitsTemperature_decl ==
  <<
    Variant("C", <<"C">>, <<"°", "C">>),
    Variant("F", <<"F">>, <<"°", "F">>),
    Variant("K", <<"K">>, <<"K">>),
    Variant("R", <<"R">>, <<"°", "R">>)
  >>

\* src/src/ome.rs:2653-2680  pub enum UnitsTime
UnitsTime_decl ==
  <<
    Variant("Ys", <<"Y", "s">>, NoRename),
    Variant("Zs", <<"Z", "s">>, NoRename),
    Variant("Es", <<"E", "s">>, NoRename),
    Variant("Ps", <<"P", "s">>, NoRename),
    Variant("Ts", <<"T", "s">>, NoRename),
    Variant("Gs", <<"G", "s">>, NoRename),
    Variant("Ms", <<"M", "s">>, NoRename),
    Variant("ks", <<"k", "s">>, NoRename),
    Variant("hs", <<"h", "s">>, NoRename),
    Variant("das", <<"d", "a", "s">>, NoRename),
    Variant("s", <<"s">>, NoRename),
    Variant("ds", <<"d", "s">>, NoRename),
    Variant("cs", <<"c", "s">>, NoRename),
    Variant("ms", <<"m", "s">>, NoRename),
    Variant("us", <<"u", "s">>, <<"µ", "s">>),
    Variant("ns", <<"n", "s">>, NoRename),
    Variant("ps", <<"p", "s">>, NoRename),
    Variant("fs", <<"f", "s">>, NoRename),
    RawVariant("as", <<"a", "s">>, NoRename),   \* r#as
    Variant("zs", <<"z", "s">>, NoRename),
    Variant("ys", <<"y", "s">>, NoRename),
    Variant("min", <<"m", "i", "n">>, NoRename),
    Variant("h", <<"h">>, NoRename),
    Variant("d", <<"d">>, NoRename)
  >>

\* the seven unit types, in the order of impl_enum_variants!
Types ==
  <<"UnitsElectricPotential", "UnitsFrequency", "UnitsLength", "UnitsPower",
    "UnitsPressure", "UnitsTemperature", "UnitsTime">>

TypeSet == {Types[i] : i \in 1..Len(Types)}

\* the declaration of a type
decl(T) ==
  CASE T = "UnitsElectricPotential" -> UnitsElectricPotential_decl
    [] T = "UnitsFrequency" -> UnitsFrequency_decl
    [] T = "UnitsLength" -> UnitsLength_decl
    [] T = "UnitsPower" -> UnitsPower_decl
    [] T = "UnitsPressure" -> UnitsPressure_decl
    [] T = "UnitsTemperature" -> UnitsTemperature_decl
    [] T = "UnitsTime" -> UnitsTime_decl

\* the values declared by d
idents(d) == {d[i].ident : i \in 1..Len(d)}

\* the values of type T
Values(T) == idents(decl(T))

\* the entry of value v in the declaration d
entry_in(d, v) == d[CHOOSE i \in 1..Len(d) : d[i].ident = v]

\* the declaration entry of value v of type T
entry(T, v) == entry_in(decl(T), v)

-----------------------------------------------------------------------------
\* impl Convert for ...: as_si

UnitsElectricPotential_as_si(self) ==
  CASE self = "YV" -> Ok(Dec(1, 24))   \* 1e24
    [] self = "ZV" -> Ok(Dec(1, 21))   \* 1e21
    [] self = "EV" -> Ok(Dec(1, 18))   \* 1e18
    [] self = "PV" -> Ok(Dec(1, 15))   \* 1e15
    [] self = "TV" -> Ok(Dec(1, 12))   \* 1e12
    [] self = "GV" -> Ok(Dec(1, 9))   \* 1e9
    [] self = "MV" -> Ok(Dec(1, 6))   \* 1e6
    [] self = "kV" -> Ok(Dec(1, 3))   \* 1e3
    [] self = "hV" -> Ok(Dec(1, 2))   \* 1e2
    [] self = "daV" -> Ok(Dec(1, 1))   \* 1e1
    [] self = "V" -> Ok(Dec(1, 0))   \* 1e0
    [] self = "dV" -> Ok(Dec(1, -1))   \* 1e-1
    [] self = "cV" -> Ok(Dec(1, -2))   \* 1e-2
    [] self = "mV" -> Ok(Dec(1, -3))   \* 1e-3
    [] self = "uV" -> Ok(Dec(1, -6))   \* 1e-6
    [] self = "nV" -> Ok(Dec(1, -9))   \* 1e-9
    [] self = "pV" -> Ok(Dec(1, -12))   \* 1e-12
    [] self = "fV" -> Ok(Dec(1, -15))   \* 1e-15
    [] self = "aV" -> Ok(Dec(1, -18))   \* 1e-18
    [] self = "zV" -> Ok(Dec(1, -21))   \* 1e-21
    [] self = "yV" -> Ok(Dec(1, -24))   \* 1e-24

UnitsFrequency_as_si(self) ==
  CASE self = "YHz" -> Ok(Dec(1, 24))   \* 1e24
    [] self = "ZHz" -> Ok(Dec(1, 21))   \* 1e21
    [] self = "EHz" -> Ok(Dec(1, 18))   \* 1e18
    [] self = "PHz" -> Ok(Dec(1, 15))   \* 1e15
    [] self = "THz" -> Ok(Dec(1, 12))   \* 1e12
    [] self = "GHz" -> Ok(Dec(1, 9))   \* 1e9
    [] self = "MHz" -> Ok(Dec(1, 6))   \* 1e6
    [] self = "kHz" -> Ok(Dec(1, 3))   \* 1e3
    [] self = "hHz" -> Ok(Dec(1, 2))   \* 1e2
    [] self = "daHz" -> Ok(Dec(1, 1))   \* 1e1
    [] self = "Hz" -> Ok(Dec(1, 0))   \* 1e0
    [] self = "dHz" -> Ok(Dec(1, -1))   \* 1e-1
    [] self = "cHz" -> Ok(Dec(1, -2))   \* 1e-2
    [] self = "mHz" -> Ok(Dec(1, -3))   \* 1e-3
    [] self = "uHz" -> Ok(Dec(1, -6))   \* 1e-6
    [] self = "nHz" -> Ok(Dec(1, -9))   \* 1e-9
    [] self = "pHz" -> Ok(Dec(1, -12))   \* 1e-12
    [] self = "fHz" -> Ok(Dec(1, -15))   \* 1e-15
    [] self = "aHz" -> Ok(Dec(1, -18))   \* 1e-18
    [] self = "zHz" -> Ok(Dec(1, -21))   \* 1e-21
    [] self = "yHz" -> Ok(Dec(1, -24))   \* 1e-24

\* UnitsLength_as_si with a pixel taken to be one metre long
UnitsLength_as_si_sized(self) ==
  CASE self = "Ym" -> Ok(Dec(1, 24))   \* 1e24
    [] self = "Zm" -> Ok(Dec(1, 21))   \* 1e21
    [] self = "Em" -> Ok(Dec(1, 18))   \* 1e18
    [] self = "Pm" -> Ok(Dec(1, 15))   \* 1e15
    [] self = "Tm" -> Ok(Dec(1, 12))   \* 1e12
    [] self = "Gm" -> Ok(Dec(1, 9))   \* 1e9
    [] self = "Mm" -> Ok(Dec(1, 6))   \* 1e6
    [] self = "km" -> Ok(Dec(1, 3))   \* 1e3
    [] self = "hm" -> Ok(Dec(1, 2))   \* 1e2
    [] self = "dam" -> Ok(Dec(1, 1))   \* 1e1
    [] self = "m" -> Ok(Dec(1, 0))   \* 1e0
    [] self = "dm" -> Ok(Dec(1, -1))   \* 1e-1
    [] self = "cm" -> Ok(Dec(1, -2))   \* 1e-2
    [] self = "mm" -> Ok(Dec(1, -3))   \* 1e-3
    [] self = "um" -> Ok(Dec(1, -6))   \* 1e-6
    [] self = "nm" -> Ok(Dec(1, -9))   \* 1e-9
    [] self = "pm" -> Ok(Dec(1, -12))   \* 1e-12
    [] self = "fm" -> Ok(Dec(1, -15))   \* 1e-15
    [] self = "am" -> Ok(Dec(1, -18))   \* 1e-18
    [] self = "zm" -> Ok(Dec(1, -21))   \* 1e-21
    [] self = "ym" -> Ok(Dec(1, -24))   \* 1e-24
    [] self = "A" -> Ok(Dec(1, -10))   \* 1e-10
    [] self = "Thou" -> Ok(Dec(254, -7))   \* 2.54e-5
    [] self = "Li" -> Ok(Dec(5, 2))   \* 5e2
    [] self = "In" -> Ok(Dec(254, -4))   \* 2.54e-2
    [] self = "Ft" -> Ok(Dec(305, -3))   \* 3.05e-1
    [] self = "Yd" -> Ok(Dec(914, -3))   \* 9.14e-1
    [] self = "Mi" -> Ok(Dec(1609344, -3))   \* 1.609344e3
    [] self = "Ua" -> Ok(Dec(1496, 8))   \* 1.496e11
    [] self = "Ly" -> Ok(Dec(9461, 12))   \* 9.461e15
    [] self = "Pc" -> Ok(Dec(3086, 13))   \* 3.086e16
    [] self = "Pt" -> Ok(Dec(352778, -9))   \* 3.52778e-4
    [] self = "Pixel" -> Ok(Dec(1, 0))
    [] self = "ReferenceFrame" -> Err(anyhow("Size of reference frame is unknown"))

UnitsLength_as_si(self) ==
  CASE self = "Ym" -> Ok(Dec(1, 24))   \* 1e24
    [] self = "Zm" -> Ok(Dec(1, 21))   \* 1e21
    [] self = "Em" -> Ok(Dec(1, 18))   \* 1e18
    [] self = "Pm" -> Ok(Dec(1, 15))   \* 1e15
    [] self = "Tm" -> Ok(Dec(1, 12))   \* 1e12
    [] self = "Gm" -> Ok(Dec(1, 9))   \* 1e9
    [] self = "Mm" -> Ok(Dec(1, 6))   \* 1e6
    [] self = "km" -> Ok(Dec(1, 3))   \* 1e3
    [] self = "hm" -> Ok(Dec(1, 2))   \* 1e2
    [] self = "dam" -> Ok(Dec(1, 1))   \* 1e1
    [] self = "m" -> Ok(Dec(1, 0))   \* 1e0
    [] self = "dm" -> Ok(Dec(1, -1))   \* 1e-1
    [] self = "cm" -> Ok(Dec(1, -2))   \* 1e-2
    [] self = "mm" -> Ok(Dec(1, -3))   \* 1e-3
    [] self = "um" -> Ok(Dec(1, -6))   \* 1e-6
    [] self = "nm" -> Ok(Dec(1, -9))   \* 1e-9
    [] self = "pm" -> Ok(Dec(1, -12))   \* 1e-12
    [] self = "fm" -> Ok(Dec(1, -15))   \* 1e-15
    [] self = "am" -> Ok(Dec(1, -18))   \* 1e-18
    [] self = "zm" -> Ok(Dec(1, -21))   \* 1e-21
    [] self = "ym" -> Ok(Dec(1, -24))   \* 1e-24
    [] self = "A" -> Ok(Dec(1, -10))   \* 1e-10
    [] self = "Thou" -> Ok(Dec(254, -7))   \* 2.54e-5
    [] self = "Li" -> Ok(Dec(5, 2))   \* 5e2
    [] self = "In" -> Ok(Dec(254, -4))   \* 2.54e-2
    [] self = "Ft" -> Ok(Dec(305, -3))   \* 3.05e-1
    [] self = "Yd" -> Ok(Dec(914, -3))   \* 9.14e-1
    [] self = "Mi" -> Ok(Dec(1609344, -3))   \* 1.609344e3
    [] self = "Ua" -> Ok(Dec(1496, 8))   \* 1.496e11
    [] self = "Ly" -> Ok(Dec(9461, 12))   \* 9.461e15
    [] self = "Pc" -> Ok(Dec(3086, 13))   \* 3.086e16
    [] self = "Pt" -> Ok(Dec(352778, -9))   \* 3.52778e-4
    [] self = "Pixel" -> Err(anyhow("Size of pixel is unknown"))
    [] self = "ReferenceFrame" -> Err(anyhow("Size of reference frame is unknown"))

UnitsPower_as_si(self) ==
  CASE self = "YW" -> Ok(Dec(1, 24))   \* 1e24
    [] self = "ZW" -> Ok(Dec(1, 21))   \* 1e21
    [] self = "EW" -> Ok(Dec(1, 18))   \* 1e18
    [] self = "PW" -> Ok(Dec(1, 15))   \* 1e15
    [] self = "TW" -> Ok(Dec(1, 12))   \* 1e12
    [] self = "GW" -> Ok(Dec(1, 9))   \* 1e9
    [] self = "MW" -> Ok(Dec(1, 6))   \* 1e6
    [] self = "kW" -> Ok(Dec(1, 3))   \* 1e3
    [] self = "hW" -> Ok(Dec(1, 2))   \* 1e2
    [] self = "daW" -> Ok(Dec(1, 1))   \* 1e1
    [] self = "W" -> Ok(Dec(1, 0))   \* 1e0
    [] self = "dW" -> Ok(Dec(1, -1))   \* 1e-1
    [] self = "cW" -> Ok(Dec(1, -2))   \* 1e-2
    [] self = "mW" -> Ok(Dec(1, -3))   \* 1e-3
    [] self = "uW" -> Ok(Dec(1, -6))   \* 1e-6
    [] self = "nW" -> Ok(Dec(1, -9))   \* 1e-9
    [] self = "pW" -> Ok(Dec(1, -12))   \* 1e-12
    [] self = "fW" -> Ok(Dec(1, -15))   \* 1e-15
    [] self = "aW" -> Ok(Dec(1, -18))   \* 1e-18
    [] self = "zW" -> Ok(Dec(1, -21))   \* 1e-21
    [] self = "yW" -> Ok(Dec(1, -24))   \* 1e-24

UnitsPressure_as_si(self) ==
  CASE self = "YPa" -> Ok(Dec(1, 24))   \* 1e24
    [] self = "ZPa" -> Ok(Dec(1, 21))   \* 1e21
    [] self = "EPa" -> Ok(Dec(1, 18))   \* 1e18
    [] self = "PPa" -> Ok(Dec(1, 15))   \* 1e15
    [] self = "TPa" -> Ok(Dec(1, 12))   \* 1e12
    [] self = "GPa" -> Ok(Dec(1, 9))   \* 1e9
    [] self = "MPa" -> Ok(Dec(1, 6))   \* 1e6
    [] self = "kPa" -> Ok(Dec(1, 3))   \* 1e3
    [] self = "hPa" -> Ok(Dec(1, 2))   \* 1e2
    [] self = "daPa" -> Ok(Dec(1, 1))   \* 1e1
    [] self = "Pa" -> Ok(Dec(1, 0))   \* 1e0
    [] self = "dPa" -> Ok(Dec(1, -1))   \* 1e-1
    [] self = "cPa" -> Ok(Dec(1, -2))   \* 1e-2
    [] self = "mPa" -> Ok(Dec(1, -3))   \* 1e-3
    [] self = "uPa" -> Ok(Dec(1, -6))   \* 1e-6
    [] self = "nPa" -> Ok(Dec(1, -9))   \* 1e-9
    [] self = "pPa" -> Ok(Dec(1, -12))   \* 1e-12
    [] self = "fPa" -> Ok(Dec(1, -15))   \* 1e-15
    [] self = "aPa" -> Ok(Dec(1, -18))   \* 1e-18
    [] self = "zPa" -> Ok(Dec(1, -21))   \* 1e-21
    [] self = "yPa" -> Ok(Dec(1, -24))   \* 1e-24
    [] self = "bar" -> Ok(Dec(1, 5))   \* 1e5
    [] self = "Mbar" -> Ok(Dec(1, 11))   \* 1e11
    [] self = "kbar" -> Ok(Dec(1, 8))   \* 1e8
    [] self = "dbar" -> Ok(Dec(1, 4))   \* 1e4
    [] self = "cbar" -> Ok(Dec(1, 3))   \* 1e3
    [] self = "mbar" -> Ok(Dec(1, 2))   \* 1e2
    [] self = "atm" -> Ok(Dec(101325, 0))   \* 1.01325e5
    [] self = "psi" -> Ok(Dec(689476, -2))   \* 6.89476e3
    [] self = "Torr" -> Ok(Dec(133322, -2))   \* 1.33322e3
    [] self = "mTorr" -> Ok(Dec(133322, -5))   \* 1.33322
    [] self = "mmHg" -> Ok(Dec(133322, -3))   \* 1.33322e2

\* UnitsTemperature_as_si with K as the base unit: K => Ok(1e0)
UnitsTemperature_as_si_kelvin_base(self) ==
  CASE self = "C" -> Err(anyhow("No conversion to K by multiplication only"))
    [] self = "F" -> Err(anyhow("No conversion to K by multiplication only"))
    [] self = "K" -> Ok(Dec(1, 0))
    [] self = "R" -> Ok(RDiv(Dec(5, 0), Dec(9, 0)))

UnitsTemperature_as_si(self) ==
  CASE self = "C" -> Err(anyhow("No conversion to K by multiplication only"))
    [] self = "F" -> Err(anyhow("No conversion to K by multiplication only"))
    [] self = "K" -> Ok(Dec(1, 1))   \* 1e1
    [] self = "R" -> Ok(RDiv(Dec(5, 0), Dec(9, 0)))   \* Ok(5f64 / 9f64)

UnitsTime_as_si(self) ==
  CASE self = "Ys" -> Ok(Dec(1, 24))   \* 1e24
    [] self = "Zs" -> Ok(Dec(1, 21))   \* 1e21
    [] self = "Es" -> Ok(Dec(1, 18))   \* 1e18
    [] self = "Ps" -> Ok(Dec(1, 15))   \* 1e15
    [] self = "Ts" -> Ok(Dec(1, 12))   \* 1e12
    [] self = "Gs" -> Ok(Dec(1, 9))   \* 1e9
    [] self = "Ms" -> Ok(Dec(1, 6))   \* 1e6
    [] self = "ks" -> Ok(Dec(1, 3))   \* 1e3
    [] self = "hs" -> Ok(Dec(1, 2))   \* 1e2
    [] self = "das" -> Ok(Dec(1, 1))   \* 1e1
    [] self = "s" -> Ok(Dec(1, 0))   \* 1e0
    [] self = "ds" -> Ok(Dec(1, -1))   \* 1e-1
    [] self = "cs" -> Ok(Dec(1, -2))   \* 1e-2
    [] self = "ms" -> Ok(Dec(1, -3))   \* 1e-3
    [] self = "us" -> Ok(Dec(1, -6))   \* 1e-6
    [] self = "ns" -> Ok(Dec(1, -9))   \* 1e-9
    [] self = "ps" -> Ok(Dec(1, -12))   \* 1e-12
    [] self = "fs" -> Ok(Dec(1, -15))   \* 1e-15
    [] self = "as" -> Ok(Dec(1, -18))   \* 1e-18
    [] self = "zs" -> Ok(Dec(1, -21))   \* 1e-21
    [] self = "ys" -> Ok(Dec(1, -24))   \* 1e-24
    [] self = "min" -> Ok(Dec(6, 1))   \* 6e1
    [] self = "h" -> Ok(Dec(36, 1))   \* 3.6e2
    [] self = "d" -> Ok(Dec(864, 2))   \* 8.64e4

\* self.as_si(), dispatched on the type of self
as_si(T, self) ==
  CASE T = "UnitsElectricPotential" -> UnitsElectricPotential_as_si(self)
    [] T = "UnitsFrequency" -> UnitsFrequency_as_si(self)
    [] T = "UnitsLength" -> UnitsLength_as_si(self)
    [] T = "UnitsPower" -> UnitsPower_as_si(self)
    [] T = "UnitsPressure" -> UnitsPressure_as_si(self)
    [] T = "UnitsTemperature" -> UnitsTemperature_as_si(self)
    [] T = "UnitsTime" -> UnitsTime_as_si(self)

-----------------------------------------------------------------------------
\* convert.  An evaluation yields the returned Result (ret) and the sequence
\* of values whose as_si was called on the way (si).

Eval(ret, si) == [ret |-> ret, si |-> si]

\* scaled without the factor of x: Ok(value / y.as_si()?)
scaled_unit_only(value, x, a, y, b) ==
  IF ~a.ok THEN Eval(a, <<x>>)
  ELSE IF ~b.ok THEN Eval(b, <<x, y>>)
  ELSE Eval(Ok(RDiv(value, b.val)), <<x, y>>)

\* Ok(value * x.as_si()? / y.as_si()?), where a and b are what x.as_si() and
\* y.as_si() return: the first ? returns a if it is an error, before y.as_si()
\* is called, the second ? returns b if it is one
scaled(value, x, a, y, b) ==
  IF ~a.ok THEN Eval(a, <<x>>)
  ELSE IF ~b.ok THEN Eval(b, <<x, y>>)
  ELSE Eval(Ok(RDiv(RMul(value, a.val), b.val)), <<x, y>>)

\* Convert_convert without the test self == unit
Convert_convert_no_identity(T, self, unit, value) ==
  scaled(value, self, as_si(T, self), unit, as_si(T, unit))

\* Convert_convert with the two factors exchanged: value * unit.as_si()? / self.as_si()?
Convert_convert_swapped(T, self, unit, value) ==
  IF self = unit
  THEN Eval(Ok(value), <<>>)
  ELSE scaled(value, unit, as_si(T, unit), self, as_si(T, self))

\* the default method of trait Convert:
\*   if self == unit { Ok(value) } else { Ok(value * self.as_si()? / unit.as_si()?) }
Convert_convert(T, self, unit, value) ==
  IF self = unit
  THEN Eval(Ok(value), <<>>)
  ELSE scaled(value, self, as_si(T, self), unit, as_si(T, unit))

\* UnitsTemperature_convert without the arm (R, C), which then takes the arm _
UnitsTemperature_convert_missing_arm(self, unit, value) ==
  CASE self = "F" /\ unit = "C" -> Eval(Ok(RDiv(RMul(RSub(value, Dec(32, 0)), Dec(5, 0)), Dec(9, 0))), <<>>)
    [] self = "K" /\ unit = "C" -> Eval(Ok(RSub(value, Dec(27315, -2))), <<>>)
    [] self = "C" /\ unit = "F" -> Eval(Ok(RAdd(RDiv(RMul(value, Dec(9, 0)), Dec(5, 0)), Dec(32, 0))), <<>>)
    [] self = "K" /\ unit = "F" -> Eval(Ok(RSub(RDiv(RMul(value, Dec(9, 0)), Dec(5, 0)), Dec(45967, -2))), <<>>)
    [] self = "R" /\ unit = "F" -> Eval(Ok(RSub(value, Dec(45967, -2))), <<>>)
    [] self = "C" /\ unit = "K" -> Eval(Ok(RAdd(value, Dec(27315, -2))), <<>>)
    [] self = "F" /\ unit = "K" -> Eval(Ok(RDiv(RMul(RAdd(value, Dec(45967, -2)), Dec(5, 0)), Dec(9, 0))), <<>>)
    [] self = "R" /\ unit = "K" -> Eval(Ok(RDiv(RMul(value, Dec(5, 0)), Dec(9, 0))), <<>>)
    [] self = "C" /\ unit = "R" -> Eval(Ok(RDiv(RMul(RAdd(value, Dec(27315, -2)), Dec(9, 0)), Dec(5, 0))), <<>>)
    [] self = "F" /\ unit = "R" -> Eval(Ok(RAdd(value, Dec(45967, -2))), <<>>)
    [] self = "K" /\ unit = "R" -> Eval(Ok(RDiv(RMul(value, Dec(9, 0)), Dec(5, 0))), <<>>)
    [] OTHER -> Eval(Ok(value), <<>>)

\* the override of convert in impl Convert for UnitsTemperature
UnitsTemperature_convert(self, unit, value) ==
  CASE self = "F" /\ unit = "C" -> Eval(Ok(RDiv(RMul(RSub(value, Dec(32, 0)), Dec(5, 0)), Dec(9, 0))), <<>>)
    [] self = "K" /\ unit = "C" -> Eval(Ok(RSub(value, Dec(27315, -2))), <<>>)
    [] self = "R" /\ unit = "C" -> Eval(Ok(RSub(RDiv(RMul(value, Dec(5, 0)), Dec(9, 0)), Dec(27315, -2))), <<>>)
    [] self = "C" /\ unit = "F" -> Eval(Ok(RAdd(RDiv(RMul(value, Dec(9, 0)), Dec(5, 0)), Dec(32, 0))), <<>>)
    [] self = "K" /\ unit = "F" -> Eval(Ok(RSub(RDiv(RMul(value, Dec(9, 0)), Dec(5, 0)), Dec(45967, -2))), <<>>)
    [] self = "R" /\ unit = "F" -> Eval(Ok(RSub(value, Dec(45967, -2))), <<>>)
    [] self = "C" /\ unit = "K" -> Eval(Ok(RAdd(value, Dec(27315, -2))), <<>>)
    [] self = "F" /\ unit = "K" -> Eval(Ok(RDiv(RMul(RAdd(value, Dec(45967, -2)), Dec(5, 0)), Dec(9, 0))), <<>>)
    [] self = "R" /\ unit = "K" -> Eval(Ok(RDiv(RMul(value, Dec(5, 0)), Dec(9, 0))), <<>>)
    [] self = "C" /\ unit = "R" -> Eval(Ok(RDiv(RMul(RAdd(value, Dec(27315, -2)), Dec(9, 0)), Dec(5, 0))), <<>>)
    [] self = "F" /\ unit = "R" -> Eval(Ok(RAdd(value, Dec(45967, -2))), <<>>)
    [] self = "K" /\ unit = "R" -> Eval(Ok(RDiv(RMul(value, Dec(9, 0)), Dec(5, 0))), <<>>)
    [] OTHER -> Eval(Ok(value), <<>>)

\* convert with UnitsTemperature inheriting the default method
convert_inherited(T, self, unit, value) == Convert_convert(T, self, unit, value)

\* self.convert(&unit, value), dispatched on the type of self
convert(T, self, unit, value) ==
  IF T = "UnitsTemperature"
  THEN UnitsTemperature_convert(self, unit, value)
  ELSE Convert_convert(T, self, unit, value)

-----------------------------------------------------------------------------
\* The state.  The library keeps no state of its own.  The state of the model
\* is the caller's: the unit value it holds (got by parsing a text), the call
\* it made last and what that call returned; and one fact of the build.

VARIABLES
  raw_kept,  \* whether derive(FromStr) keeps the r# of a raw identifier in the
             \* name it matches (the derive takes the name from the identifier
             \* token; the sources of the repository do not settle which)
  pc,        \* "idle": no call in progress; "returned": the call has returned
  held,      \* the unit value the caller holds, if any
  call,      \* the call: operation, type, receiver, arguments
  ret,       \* the Result it returned
  si_calls,  \* the values whose as_si ran during the call, in order
  threads,   \* for each thread that calls concurrently: where it is in its
             \* call, the call, and what it returned
  frames     \* for each stack frame: the locals of a convert in progress

-----------------------------------------------------------------------------
\* ASCII letter case of texts

LowerAZ ==
  <<"a", "b", "c", "d", "e", "f", "g", "h", "i", "j", "k", "l", "m",
    "n", "o", "p", "q", "r", "s", "t", "u", "v", "w", "x", "y", "z">>

UpperAZ ==
  <<"A", "B", "C", "D", "E", "F", "G", "H", "I", "J", "K", "L", "M",
    "N", "O", "P", "Q", "R", "S", "T", "U", "V", "W", "X", "Y", "Z">>

\* char::to_ascii_uppercase
char_to_ascii_uppercase(c) ==
  IF \E i \in 1..26 : LowerAZ[i] = c
  THEN UpperAZ[CHOOSE i \in 1..26 : LowerAZ[i] = c]
  ELSE c

\* char::to_ascii_lowercase
char_to_ascii_lowercase(c) ==
  IF \E i \in 1..26 : UpperAZ[i] = c
  THEN LowerAZ[CHOOSE i \in 1..26 : UpperAZ[i] = c]
  ELSE c

\* str::to_ascii_uppercase
to_ascii_uppercase(s) == [i \in 1..Len(s) |-> char_to_ascii_uppercase(s[i])]

\* str::to_ascii_lowercase
to_ascii_lowercase(s) == [i \in 1..Len(s) |-> char_to_ascii_lowercase(s[i])]

-----------------------------------------------------------------------------
\* Text forms of the enums

\* the unit error of the derived FromStr: Err(())
UnitErr == [type |-> "()", msg |-> "", arg |-> <<>>]

\* the prefix of a raw identifier
RawPrefix == <<"r", "#">>

\* the name derive(FromStr) matches for a declared variant: its identifier
from_str_name(e) == IF e.raw /\ raw_kept THEN RawPrefix \o e.spelling ELSE e.spelling

\* the match the derived from_str makes over the variants declared by d
from_str_match(d, s) ==
  IF \E i \in 1..Len(d) : from_str_name(d[i]) = s
  THEN Ok(d[CHOOSE i \in 1..Len(d) : from_str_name(d[i]) = s].ident)
  ELSE Err(UnitErr)

\* #[derive(FromStr)] (enum_utils): s must be the identifier of a variant
from_str(T, s) == from_str_match(decl(T), s)

\* #[derive(Debug)]: format!("{:?}", v) writes the identifier of the variant,
\* a raw identifier without its r#
fmt_debug(T, v) == entry(T, v).spelling

\* serde_name_of under #[serde(rename_all = "lowercase")] applied to every name
serde_name_of_lowercase(e) ==
  to_ascii_lowercase(IF e.rename # NoRename THEN e.rename ELSE e.spelling)

\* the name serde gives a declared variant: the rename if there is one, else the identifier
serde_name_of(e) == IF e.rename # NoRename THEN e.rename ELSE e.spelling

\* the name serde uses for value v of type T
serde_name(T, v) == serde_name_of(entry(T, v))

\* #[derive(Serialize)]
serialize(T, v) == serde_name(T, v)

\* quick_xml::DeError for a text that names no variant
DeError(s) == [type |-> "DeError", msg |-> "unknown variant {}", arg |-> s]

\* the match the derived deserializer makes over the variants declared by d
deserialize_match(d, s) ==
  IF \E i \in 1..Len(d) : serde_name_of(d[i]) = s
  THEN Ok(d[CHOOSE i \in 1..Len(d) : serde_name_of(d[i]) = s].ident)
  ELSE Err(DeError(s))

\* #[derive(Deserialize)]: s must be the serde name of a variant
deserialize(T, s) == deserialize_match(decl(T), s)

\* iter_collect with the iterator running backwards
iter_collect_reversed(d) == [i \in 1..Len(d) |-> d[Len(d) + 1 - i].ident]

\* Self::iter().collect() over the variants declared by d
iter_collect(d) == [i \in 1..Len(d) |-> d[i].ident]

\* impl_enum_variants!: Self::iter().collect(), the variants in declaration order
variants(T) == iter_collect(decl(T))

-----------------------------------------------------------------------------
\* The Python classes (py.rs, impl_enum_into_py_object!)

\* $s of $s: $t
PyClass(T) ==
  CASE T = "UnitsElectricPotential" -> "ElectricPotential"
    [] T = "UnitsFrequency" -> "Frequency"
    [] T = "UnitsLength" -> "Length"
    [] T = "UnitsPower" -> "Power"
    [] T = "UnitsPressure" -> "Pressure"
    [] T = "UnitsTemperature" -> "Temperature"
    [] T = "UnitsTime" -> "Time"

\* pub struct $s { inner: $t }
PyObj(T, inner) == [class |-> PyClass(T), inner |-> inner]

\* InvalidUnit with a message that leaves the text out
InvalidUnit_no_text(unit) == [type |-> "PyValueError", msg |-> "Invalid unit", arg |-> <<>>]

\* PyErr::new::<PyValueError, _>(format!("Invalid unit: {}", unit))
InvalidUnit(unit) == [type |-> "PyValueError", msg |-> "Invalid unit: {}", arg |-> unit]

\* the conversion of an anyhow::Error into a PyErr by the ? operator
PyErrFrom(e) == [type |-> "PyRuntimeError", msg |-> e.msg, arg |-> e.arg]

\* match unit.parse() { Ok(unit) => Ok(Self { inner: unit }), Err(_) => Err(...) },
\* r being what unit.parse() returns
Py_new_parsed(T, unit, r) ==
  IF r.ok THEN Ok(PyObj(T, r.val)) ELSE Err(InvalidUnit(unit))

\* #[new] fn new(unit: &str) -> PyResult<Self>
Py_new(T, unit) == Py_new_parsed(T, unit, from_str(T, unit))

\* Ok(c?), c being what self.inner.convert(&unit, value) evaluated to
Py_convert_result(c) ==
  IF c.ret.ok THEN c ELSE Eval(Err(PyErrFrom(c.ret.err)), c.si)

\* match unit.parse() { Ok(unit) => ..., Err(_) => Err(...) } of convert,
\* r being what unit.parse() returns
Py_convert_parsed(T, inner, unit, value, r) ==
  IF r.ok
  THEN Py_convert_result(convert(T, inner, r.val, value))
  ELSE Eval(Err(InvalidUnit(unit)), <<>>)

\* fn convert(&self, unit: &str, value: f64) -> PyResult<f64>
Py_convert(T, inner, unit, value) ==
  Py_convert_parsed(T, inner, unit, value, from_str(T, unit))

\* the {:?} texts of the values vs of type T
Py_variants_of(T, vs) == [i \in 1..Len(vs) |-> fmt_debug(T, vs[i])]

\* #[staticmethod] fn variants() -> Vec<String>
Py_variants(T) == Py_variants_of(T, variants(T))

\* fn __repr__(&self) -> String and fn __str__(&self) -> String
Py_repr(T, inner) == fmt_debug(T, inner)

\* fn __reduce__(&self): the arguments (stringify!($s), format!("{:?}", self.inner))
\* that the pickle hands to Constructor
Py_reduce(T, inner) == Ok(<<PyClass(T), fmt_debug(T, inner)>>)

\* the names that Constructor::__call__ matches, and the type of each
ConstructorClasses == {PyClass(T) : T \in TypeSet}
ConstructorType(class) == CHOOSE T \in TypeSet : PyClass(T) = class

\* Constructor::__call__(class, variant): match class.as_str() { "Length" =>
\* Length::new(&variant)?.into_bound_py_any(py), ...,
\* _ => Err(anyhow!("cannot parse class {}", class).into()) }
Constructor_call(class, variant) ==
  IF class \in ConstructorClasses
  THEN Py_new(ConstructorType(class), variant)
  ELSE Err(PyErrFrom([type |-> "anyhow::Error", msg |-> "cannot parse class {}", arg |-> class]))

-----------------------------------------------------------------------------
\* Texts handed to the parsing operations

\* k blanks
Blanks(k) == [i \in 1..k |-> " "]

\* every text written or read for one of the variants declared by d
names_in(d) ==
  {d[i].spelling : i \in 1..Len(d)}
    \cup {serde_name_of(d[i]) : i \in 1..Len(d)}
    \cup {RawPrefix \o d[i].spelling : i \in {j \in 1..Len(d) : d[j].raw}}

\* every text type T writes or reads for one of its variants
Names(T) == names_in(decl(T))

\* texts that name nothing
Garbage == {<<"x", "y", "z">>, <<>>}

\* class names that Constructor does not match: its own, and the type of a unit
OtherClasses == {"Constructor", "UnitsLength"}

\* the texts tried on type T: its names, its names in other letter case, its
\* names with blanks around them, and texts that name nothing
Texts(T) ==
  UNION {{n, to_ascii_uppercase(n), to_ascii_lowercase(n)}
           \cup {Blanks(k) \o n : k \in 1..MaxPad}
           \cup {n \o Blanks(k) : k \in 1..MaxPad} : n \in Names(T)}
    \cup Garbage

-----------------------------------------------------------------------------
\* The calls.

vars == <<raw_kept, pc, held, call, ret, si_calls, threads, frames>>

\* the f64 arguments tried: the whole numbers up to MaxValue, and 1000.0
F64s == {Dec(i, 0) : i \in -MaxValue..MaxValue} \cup {Dec(1000, 0)}

\* the literals of the temperature scales that a caller passes as values:
\* the freezing point of water in F (32.) and in R (491.67)
ReferencePoints == {Dec(32, 0), Dec(49167, -2)}

\* the f64 arguments tried on values of type T
F64sOf(T) == IF T = "UnitsTemperature" THEN F64s \cup ReferencePoints ELSE F64s

NoText == <<>>
Call(op, T, self, unit, value, text) ==
  [op |-> op, T |-> T, self |-> self, unit |-> unit, value |-> value, text |-> text]
NoCall == Call("-", "-", "-", "-", Dec(0, 0), NoText)

\* the call unit.convert(&self, value) that converts back the number an
\* earlier convert returned, which had the argument first
CallBack(T, self, unit, value, first) ==
  [op |-> "convert_back", T |-> T, self |-> self, unit |-> unit, value |-> value,
   text |-> NoText, first |-> first]

\* the call Constructor::__call__(class, text); T and self are the type and
\* the value of the object that was pickled, if the pair comes from a pickle
CallConstructor(class, T, self, text) ==
  [op |-> "constructor_call", T |-> T, self |-> self, unit |-> "-", value |-> Dec(0, 0),
   text |-> text, class |-> class]

\* the call self.convert(&unit, value) that converts on, to a third unit, the
\* number an earlier convert returned, which converted first from unit from
CallOn(T, self, unit, value, from, first) ==
  [op |-> "convert_on", T |-> T, self |-> self, unit |-> unit, value |-> value,
   text |-> NoText, from |-> from, first |-> first]
NoRet == Err(anyhow("-"))

\* a held value v of type T, and no held value
Held(T, v) == [T |-> T, v |-> v]
NoValue == Held("-", "-")

\* the threads that call concurrently
Threads == {"t1", "t2"}

\* a thread: its position, its call and the result it got
Thread(at, c, r) == [pc |-> at, call |-> c, ret |-> r]

\* the locals of a convert: what self.as_si() and unit.as_si() returned
Frame(a, b) == [a |-> a, b |-> b]

Init ==
  /\ raw_kept \in BOOLEAN
  /\ pc = "idle"
  /\ held = NoValue
  /\ call = NoCall
  /\ ret = NoRet
  /\ si_calls = <<>>
  /\ threads = [t \in Threads |-> Thread("idle", NoCall, NoRet)]
  /\ frames = [t \in Threads |-> Frame(NoRet, NoRet)]

\* a caller evaluates text.parse::<T>() and keeps the value if there is one
CallFromStr ==
  /\ pc = "idle" /\ held = NoValue
  /\ \E T \in TypeSet : \E text \in Texts(T) :
       \E r \in {from_str(T, text)} :
       /\ call' = Call("from_str", T, "-", "-", Dec(0, 0), text)
       /\ ret' = r
       /\ held' = IF r.ok THEN Held(T, r.val) ELSE NoValue
  /\ si_calls' = <<>>
  /\ pc' = "returned"
  /\ UNCHANGED <<raw_kept, threads, frames>>

\* the XML reader deserializes an attribute text into a T
CallDeserialize ==
  /\ pc = "idle" /\ held = NoValue
  /\ \E T \in TypeSet : \E text \in Texts(T) :
       \E r \in {deserialize(T, text)} :
       /\ call' = Call("deserialize", T, "-", "-", Dec(0, 0), text)
       /\ ret' = r
       /\ held' = IF r.ok THEN Held(T, r.val) ELSE NoValue
  /\ si_calls' = <<>>
  /\ pc' = "returned"
  /\ UNCHANGED <<raw_kept, threads, frames>>

\* Python evaluates Class(text); the object made wraps the value as its inner
PyNew ==
  /\ pc = "idle" /\ held = NoValue
  /\ \E T \in TypeSet : \E text \in Texts(T) :
       \E r \in {Py_new(T, text)} :
       /\ call' = Call("py_new", T, "-", "-", Dec(0, 0), text)
       /\ ret' = r
       /\ held' = IF r.ok THEN Held(T, r.val.inner) ELSE NoValue
  /\ si_calls' = <<>>
  /\ pc' = "returned"
  /\ UNCHANGED <<raw_kept, threads, frames>>

\* the caller evaluates self.convert(&unit, value) on the value it holds
CallConvert ==
  /\ pc = "idle" /\ held # NoValue
  /\ \E unit \in Values(held.T) : \E value \in F64sOf(held.T) :
       \E r \in {convert(held.T, held.v, unit, value)} :
       /\ call' = Call("convert", held.T, held.v, unit, value, NoText)
       /\ ret' = r.ret
       /\ si_calls' = r.si
  /\ pc' = "returned"
  /\ UNCHANGED <<held, raw_kept, threads, frames>>

\* the caller evaluates self.as_si() on the value it holds
CallAsSi ==
  /\ pc = "idle" /\ held # NoValue
  /\ call' = Call("as_si", held.T, held.v, "-", Dec(0, 0), NoText)
  /\ ret' = as_si(held.T, held.v)
  /\ si_calls' = <<held.v>>
  /\ pc' = "returned"
  /\ UNCHANGED <<held, raw_kept, threads, frames>>

\* the caller formats the value it holds with {:?}
CallDebug ==
  /\ pc = "idle" /\ held # NoValue
  /\ call' = Call("fmt_debug", held.T, held.v, "-", Dec(0, 0), NoText)
  /\ ret' = Ok(fmt_debug(held.T, held.v))
  /\ si_calls' = <<>>
  /\ pc' = "returned"
  /\ UNCHANGED <<held, raw_kept, threads, frames>>

\* the caller serializes the value it holds
CallSerialize ==
  /\ pc = "idle" /\ held # NoValue
  /\ call' = Call("serialize", held.T, held.v, "-", Dec(0, 0), NoText)
  /\ ret' = Ok(serialize(held.T, held.v))
  /\ si_calls' = <<>>
  /\ pc' = "returned"
  /\ UNCHANGED <<held, raw_kept, threads, frames>>

\* Python evaluates obj.convert(text, value) on the object of the held value
PyConvert ==
  /\ pc = "idle" /\ held # NoValue
  /\ \E text \in Names(held.T) \cup Garbage : \E value \in F64sOf(held.T) :
       \E r \in {Py_convert(held.T, held.v, text, value)} :
       /\ call' = Call("py_convert", held.T, held.v, "-", value, text)
       /\ ret' = r.ret
       /\ si_calls' = r.si
  /\ pc' = "returned"
  /\ UNCHANGED <<held, raw_kept, threads, frames>>

\* Python evaluates repr(obj) or str(obj) on the object of the held value
PyRepr ==
  /\ pc = "idle" /\ held # NoValue
  /\ \E op \in {"py_repr", "py_str"} :
       call' = Call(op, held.T, held.v, "-", Dec(0, 0), NoText)
  /\ ret' = Ok(Py_repr(held.T, held.v))
  /\ si_calls' = <<>>
  /\ pc' = "returned"
  /\ UNCHANGED <<held, raw_kept, threads, frames>>

\* a caller evaluates T::variants()
CallVariants ==
  /\ pc = "idle"
  /\ \E T \in TypeSet :
       /\ call' = Call("variants", T, "-", "-", Dec(0, 0), NoText)
       /\ ret' = Ok(variants(T))
  /\ si_calls' = <<>>
  /\ pc' = "returned"
  /\ UNCHANGED <<held, raw_kept, threads, frames>>

\* Python evaluates Class.variants()
PyVariants ==
  /\ pc = "idle"
  /\ \E T \in TypeSet :
       /\ call' = Call("py_variants", T, "-", "-", Dec(0, 0), NoText)
       /\ ret' = Ok(Py_variants(T))
  /\ si_calls' = <<>>
  /\ pc' = "returned"
  /\ UNCHANGED <<held, raw_kept, threads, frames>>

\* pickle evaluates obj.__reduce__() on the object of the held value
PyReduce ==
  /\ pc = "idle" /\ held # NoValue
  /\ call' = Call("py_reduce", held.T, held.v, "-", Dec(0, 0), NoText)
  /\ ret' = Py_reduce(held.T, held.v)
  /\ si_calls' = <<>>
  /\ pc' = "returned"
  /\ UNCHANGED <<held, raw_kept, threads, frames>>

\* unpickling calls Constructor with the pair that __reduce__ has just returned
Unpickle ==
  /\ pc = "returned" /\ call.op = "py_reduce"
  /\ call' = CallConstructor(ret.val[1], held.T, held.v, ret.val[2])
  /\ ret' = Constructor_call(ret.val[1], ret.val[2])
  /\ si_calls' = <<>>
  /\ UNCHANGED <<pc, held, raw_kept, threads, frames>>

\* Python calls Constructor with a class name and a text of its own
PyConstructorCall ==
  /\ pc = "idle" /\ held = NoValue
  /\ \E class \in ConstructorClasses \cup OtherClasses : \E text \in Garbage \cup {<<"m">>} :
       /\ call' = CallConstructor(class, "-", "-", text)
       /\ ret' = Constructor_call(class, text)
  /\ si_calls' = <<>>
  /\ pc' = "returned"
  /\ UNCHANGED <<held, raw_kept, threads, frames>>

\* the caller parses the text that displaying the held value has just returned:
\* the {:?} text with parse, the text of repr or str with the Python
\* constructor, the serialized text with the deserializer
ParseDisplayed ==
  /\ pc = "returned"
  /\ call.op \in {"fmt_debug", "py_repr", "py_str", "serialize"}
  /\ \/ /\ call.op = "fmt_debug"
        /\ call' = Call("from_str", held.T, held.v, "-", Dec(0, 0), ret.val)
        /\ ret' = from_str(held.T, ret.val)
     \/ /\ call.op = "serialize"
        /\ call' = Call("deserialize", held.T, held.v, "-", Dec(0, 0), ret.val)
        /\ ret' = deserialize(held.T, ret.val)
     \/ /\ call.op \in {"py_repr", "py_str"}
        /\ call' = Call("py_new", held.T, held.v, "-", Dec(0, 0), ret.val)
        /\ ret' = Py_new(held.T, ret.val)
  /\ si_calls' = <<>>
  /\ UNCHANGED <<pc, held, raw_kept, threads, frames>>

\* the caller converts the number that convert has just returned back to the
\* unit it came from: unit.convert(&self, returned)
ConvertBack ==
  /\ pc = "returned" /\ call.op = "convert" /\ ret.ok
  /\ \E r \in {convert(call.T, call.unit, call.self, ret.val)} :
       /\ call' = CallBack(call.T, call.unit, call.self, ret.val, call.value)
       /\ ret' = r.ret
       /\ si_calls' = r.si
  /\ UNCHANGED <<pc, held, raw_kept, threads, frames>>

\* the caller converts the temperature that convert has just returned on to
\* a third scale: unit.convert(&third, returned)
ConvertOn ==
  /\ pc = "returned" /\ call.op = "convert" /\ ret.ok
  /\ call.T = "UnitsTemperature"
  /\ \E third \in Values(call.T) :
       \E r \in {convert(call.T, call.unit, third, ret.val)} :
       /\ call' = CallOn(call.T, call.unit, third, ret.val, call.self, call.value)
       /\ ret' = r.ret
       /\ si_calls' = r.si
  /\ UNCHANGED <<pc, held, raw_kept, threads, frames>>

\* the caller takes the result
Return ==
  /\ pc = "returned"
  /\ pc' = "idle"
  /\ call' = NoCall
  /\ ret' = NoRet
  /\ si_calls' = <<>>
  /\ UNCHANGED <<held, raw_kept, threads, frames>>

\* the caller drops the value it holds
Drop ==
  /\ pc = "idle" /\ held # NoValue
  /\ held' = NoValue
  /\ UNCHANGED <<pc, call, ret, si_calls, raw_kept, threads, frames>>

Next ==
  \/ CallFromStr
  \/ CallDeserialize
  \/ PyNew
  \/ CallConvert
  \/ CallAsSi
  \/ CallDebug
  \/ CallSerialize
  \/ PyConvert
  \/ PyRepr
  \/ CallVariants
  \/ PyVariants
  \/ PyReduce
  \/ Unpickle
  \/ PyConstructorCall
  \/ ParseDisplayed
  \/ ConvertBack
  \/ ConvertOn
  \/ Return
  \/ Drop

Spec == Init /\ [][Next]_vars

-----------------------------------------------------------------------------
\* Calls from several threads.  A call runs on the stack of its thread: the
\* arguments and the locals of convert (what self.as_si() and unit.as_si()
\* returned) are in the frame of the thread, and nothing else is written.

\* the single caller of the actions above
caller == <<raw_kept, pc, held, call, ret, si_calls>>

\* the units the threads use: lengths with a size and without, temperatures
ThreadUnits(T) ==
  IF T = "UnitsLength" THEN {"m", "km", "Pixel"} ELSE {"C", "K"}

\* the calls of convert and as_si the threads make on type T
ThreadCallsOn(T) ==
  {Call("convert", T, a, b, Dec(1, 0), NoText) : a \in ThreadUnits(T), b \in ThreadUnits(T)}
    \cup {Call("as_si", T, a, "-", Dec(0, 0), NoText) : a \in ThreadUnits(T)}

\* the calls the threads make
ThreadCalls ==
  ThreadCallsOn("UnitsLength") \cup ThreadCallsOn("UnitsTemperature")
    \cup {Call("from_str", "UnitsTime", "-", "-", Dec(0, 0), s) : s \in {<<"s">>, <<"a", "s">>} \cup Garbage}
    \cup {Call("variants", "UnitsTemperature", "-", "-", Dec(0, 0), NoText)}

\* every thread has the same frame
StackOf_static(t) == "t1"

\* the frame that holds the locals of the call of thread t: one of its own stack
StackOf(t) == t

\* whether call c runs the else branch of the default convert
Scales(c) == c.op = "convert" /\ c.T # "UnitsTemperature" /\ c.self # c.unit

\* what a call that is one expression of its arguments returns
Direct(c) ==
  CASE c.op = "as_si" -> as_si(c.T, c.self)
    [] c.op = "from_str" -> from_str(c.T, c.text)
    [] c.op = "variants" -> Ok(variants(c.T))
    [] c.op = "convert" /\ c.T = "UnitsTemperature" ->
         UnitsTemperature_convert(c.self, c.unit, c.value).ret
    [] OTHER -> Ok(c.value)

\* a thread makes a call
ThreadCall ==
  /\ \E t \in Threads : \E c \in ThreadCalls :
       /\ threads[t].pc = "idle"
       /\ threads' = [threads EXCEPT ![t] = Thread("entry", c, NoRet)]
  /\ UNCHANGED <<frames, caller>>

\* the call of a thread runs up to its return, or, in the else branch of the
\* default convert, up to the return of self.as_si()
ThreadEnter ==
  /\ \E t \in Threads : \E c \in {threads[t].call} :
       /\ threads[t].pc = "entry"
       /\ IF Scales(c)
          THEN /\ frames' = [frames EXCEPT ![StackOf(t)] = Frame(as_si(c.T, c.self), NoRet)]
               /\ threads' = [threads EXCEPT ![t] = Thread("self_si", c, NoRet)]
          ELSE /\ threads' = [threads EXCEPT ![t] = Thread("returned", c, Direct(c))]
               /\ UNCHANGED frames
  /\ UNCHANGED caller

\* the first ? of the default convert, then unit.as_si()
ThreadSelfSi ==
  /\ \E t \in Threads : \E c \in {threads[t].call} : \E f \in {frames[StackOf(t)]} :
       /\ threads[t].pc = "self_si"
       /\ IF f.a.ok
          THEN /\ frames' = [frames EXCEPT ![StackOf(t)] = Frame(f.a, as_si(c.T, c.unit))]
               /\ threads' = [threads EXCEPT ![t] = Thread("unit_si", c, NoRet)]
          ELSE /\ threads' = [threads EXCEPT ![t] = Thread("returned", c, f.a)]
               /\ UNCHANGED frames
  /\ UNCHANGED caller

\* the second ? of the default convert, then Ok(value * a / b)
ThreadUnitSi ==
  /\ \E t \in Threads : \E c \in {threads[t].call} : \E f \in {frames[StackOf(t)]} :
       /\ threads[t].pc = "unit_si"
       /\ threads' = [threads EXCEPT ![t] =
            Thread("returned", c,
                   IF f.b.ok THEN Ok(RDiv(RMul(c.value, f.a.val), f.b.val)) ELSE f.b)]
  /\ UNCHANGED <<frames, caller>>

\* a thread takes its result
ThreadReturn ==
  /\ \E t \in Threads :
       /\ threads[t].pc = "returned"
       /\ threads' = [threads EXCEPT ![t] = Thread("idle", NoCall, NoRet)]
  /\ UNCHANGED <<frames, caller>>

NextThreads ==
  \/ ThreadCall
  \/ ThreadEnter
  \/ ThreadSelfSi
  \/ ThreadUnitSi
  \/ ThreadReturn

SpecThreads == Init /\ [][NextThreads]_vars

-----------------------------------------------------------------------------
\* Properties of convert

Returned(op) == pc = "returned" /\ call.op = op

\* the types whose convert is the default method
Multiplicative == TypeSet \ {"UnitsTemperature"}

\* C1: convert(v, v, x) returns exactly x for every variant v of every type,
\* Pixel and ReferenceFrame included, and as_si is not called on the way.
C1_Identity ==
  (Returned("convert") /\ call.self = call.unit)
    => (ret = Ok(call.value) /\ si_calls = <<>>)

\* C1 happens: Pixel has no SI factor and convert(Pixel, Pixel, 1.0) returned 1.0
C1_Witness ==
  /\ Returned("convert")
  /\ call.T = "UnitsLength" /\ call.self = "Pixel" /\ call.unit = "Pixel"
  /\ ~as_si("UnitsLength", "Pixel").ok
  /\ call.value = Dec(1, 0)
  /\ ret = Ok(Dec(1, 0))

\* C2: in the six multiplicative types, for self # unit, convert returns
\* value * as_si(self) / as_si(unit) when both factors exist, and otherwise
\* returns the failure of as_si and no number.
C2_Multiplicative ==
  (Returned("convert") /\ call.T \in Multiplicative /\ call.self # call.unit)
    => LET a == as_si(call.T, call.self)
           b == as_si(call.T, call.unit)
       IN IF a.ok /\ b.ok
          THEN ret = Ok(RDiv(RMul(call.value, a.val), b.val))
          ELSE ~ret.ok /\ (ret = a \/ ret = b)

\* C2 happens: convert(In, cm, 1.0) returned 2.54
C2_Witness ==
  /\ Returned("convert")
  /\ call.T = "UnitsLength" /\ call.self = "In" /\ call.unit = "cm"
  /\ call.value = Dec(1, 0)
  /\ ret = Ok(Dec(254, -2))

\* the errors that say a length has no known size
SizeUnknown(e) ==
  /\ e.type = "anyhow::Error"
  /\ e.msg \in {"Size of pixel is unknown", "Size of reference frame is unknown"}

\* C3: a conversion between two different lengths of which one is Pixel or
\* ReferenceFrame fails with the size-unknown error, whatever the value.
C3_SizeUnknown ==
  (/\ Returned("convert")
   /\ call.T = "UnitsLength"
   /\ call.self # call.unit
   /\ {call.self, call.unit} \cap {"Pixel", "ReferenceFrame"} # {})
    => (~ret.ok /\ SizeUnknown(ret.err))

\* C3 happens: convert(um, Pixel, 1.0) failed, the error being that of Pixel
C3_Witness ==
  /\ Returned("convert")
  /\ call.T = "UnitsLength" /\ call.self = "um" /\ call.unit = "Pixel"
  /\ call.value = Dec(1, 0)
  /\ ~ret.ok /\ ret.err.msg = "Size of pixel is unknown"

\* a/b as a number
Ratio(a, b) == RDiv(Dec(a, 0), Dec(b, 0))

\* the closed form (v + pre) * scale + post
Affine(v, pre, scale, post) == RAdd(RMul(RAdd(v, pre), scale), post)

\* the closed forms of the twelve ordered pairs of different temperature scales
ClosedForm(from, to, v) ==
  CASE from = "F" /\ to = "C" -> Affine(v, Dec(-32, 0), Ratio(5, 9), Dec(0, 0))
    [] from = "K" /\ to = "C" -> Affine(v, Dec(0, 0), Dec(1, 0), Dec(-27315, -2))
    [] from = "R" /\ to = "C" -> Affine(v, Dec(0, 0), Ratio(5, 9), Dec(-27315, -2))
    [] from = "C" /\ to = "F" -> Affine(v, Dec(0, 0), Ratio(9, 5), Dec(32, 0))
    [] from = "K" /\ to = "F" -> Affine(v, Dec(0, 0), Ratio(9, 5), Dec(-45967, -2))
    [] from = "R" /\ to = "F" -> Affine(v, Dec(0, 0), Dec(1, 0), Dec(-45967, -2))
    [] from = "C" /\ to = "K" -> Affine(v, Dec(0, 0), Dec(1, 0), Dec(27315, -2))
    [] from = "F" /\ to = "K" -> Affine(v, Dec(45967, -2), Ratio(5, 9), Dec(0, 0))
    [] from = "R" /\ to = "K" -> Affine(v, Dec(0, 0), Ratio(5, 9), Dec(0, 0))
    [] from = "C" /\ to = "R" -> Affine(v, Dec(27315, -2), Ratio(9, 5), Dec(0, 0))
    [] from = "F" /\ to = "R" -> Affine(v, Dec(45967, -2), Dec(1, 0), Dec(0, 0))
    [] from = "K" /\ to = "R" -> Affine(v, Dec(0, 0), Ratio(9, 5), Dec(0, 0))

\* C4: for each of the twelve ordered pairs of different temperature scales
\* convert returns the closed form of the pair; no pair takes the identity
\* arm (which at value 1.0 would return 1.0, as no closed form does).
C4_TemperatureFormulas ==
  (Returned("convert") /\ call.T = "UnitsTemperature" /\ call.self # call.unit)
    => /\ ret = Ok(ClosedForm(call.self, call.unit, call.value))
       /\ call.value = Dec(1, 0) => ret # Ok(call.value)

\* C4 happens: convert(R, C, 0.0) returned -273.15
C4_Witness ==
  /\ Returned("convert")
  /\ call.T = "UnitsTemperature" /\ call.self = "R" /\ call.unit = "C"
  /\ call.value = Dec(0, 0)
  /\ ret = Ok(Dec(-27315, -2))

\* C5: a temperature conversion never calls as_si and never fails, for all
\* sixteen ordered pairs, whether called directly or through the Python class.
C5_TemperatureNeverSi ==
  /\ (Returned("convert") /\ call.T = "UnitsTemperature")
       => (ret.ok /\ si_calls = <<>>)
  /\ (Returned("py_convert") /\ call.T = "UnitsTemperature" /\ from_str(call.T, call.text).ok)
       => (ret.ok /\ si_calls = <<>>)

\* C5 happens: as_si fails for C and for F, and convert(C, F, 1.0) returned a number
C5_Witness ==
  /\ Returned("convert")
  /\ call.T = "UnitsTemperature" /\ call.self = "C" /\ call.unit = "F"
  /\ ~as_si("UnitsTemperature", "C").ok /\ ~as_si("UnitsTemperature", "F").ok
  /\ call.value = Dec(1, 0)
  /\ ret = Ok(Dec(338, -1))

-----------------------------------------------------------------------------
\* Properties of parsing and display

\* the calls that parse a text
ParseOps == {"from_str", "deserialize", "py_new"}

\* the SI prefixes of the symbol grammar, the micro prefix in both spellings
SIPrefixes ==
  {<<"Y">>, <<"Z">>, <<"E">>, <<"P">>, <<"T">>, <<"G">>, <<"M">>, <<"k">>, <<"h">>,
   <<"d", "a">>, <<>>, <<"d">>, <<"c">>, <<"m">>, <<"µ">>, <<"u">>, <<"n">>, <<"p">>,
   <<"f">>, <<"a">>, <<"z">>, <<"y">>}

\* the base symbol of an SI-prefixed type
BaseSymbol(T) ==
  CASE T = "UnitsLength" -> <<"m">>
    [] T = "UnitsTime" -> <<"s">>
    [] T = "UnitsFrequency" -> <<"H", "z">>
    [] T = "UnitsPower" -> <<"W">>
    [] T = "UnitsPressure" -> <<"P", "a">>
    [] T = "UnitsElectricPotential" -> <<"V">>

\* the symbols of a type that are not SI-prefixed
ExtraSymbols(T) ==
  CASE T = "UnitsLength" ->
         {<<"Å">>, <<"t", "h", "o", "u">>, <<"l", "i">>, <<"i", "n">>, <<"f", "t">>,
          <<"y", "d">>, <<"m", "i">>, <<"u", "a">>, <<"l", "y">>, <<"p", "c">>, <<"p", "t">>,
          <<"p", "i", "x", "e", "l">>,
          <<"r", "e", "f", "e", "r", "e", "n", "c", "e", " ", "f", "r", "a", "m", "e">>}
    [] T = "UnitsPressure" ->
         {<<"b", "a", "r">>, <<"M", "b", "a", "r">>, <<"k", "b", "a", "r">>,
          <<"d", "b", "a", "r">>, <<"c", "b", "a", "r">>, <<"m", "b", "a", "r">>,
          <<"a", "t", "m">>, <<"p", "s", "i">>, <<"T", "o", "r", "r">>,
          <<"m", "T", "o", "r", "r">>, <<"m", "m", " ", "H", "g">>}
    [] T = "UnitsTime" -> {<<"m", "i", "n">>, <<"h">>, <<"d">>}
    [] T = "UnitsTemperature" -> {<<"°", "C">>, <<"°", "F">>, <<"K">>, <<"°", "R">>}
    [] OTHER -> {}

\* the canonical symbols of a type as the symbol grammar lists them
CanonicalSymbols(T) ==
  IF T = "UnitsTemperature" THEN ExtraSymbols(T)
  ELSE {p \o BaseSymbol(T) : p \in SIPrefixes} \cup ExtraSymbols(T)

\* C6: parsing succeeds for every canonical symbol of the type, the symbols
\* that are no identifiers ("µm", "Å", "pixel", "mm Hg", "°C", ...) included.
C6_CanonicalParses ==
  (pc = "returned" /\ call.op \in ParseOps /\ call.text \in CanonicalSymbols(call.T))
    => ret.ok

\* the micro variant of an SI-prefixed type
Micro(T) ==
  CASE T = "UnitsLength" -> "um"
    [] T = "UnitsTime" -> "us"
    [] T = "UnitsFrequency" -> "uHz"
    [] T = "UnitsPower" -> "uW"
    [] T = "UnitsPressure" -> "uPa"
    [] T = "UnitsElectricPotential" -> "uV"

\* the parsed value, of a parse that succeeded
Parsed == IF call.op = "py_new" THEN ret.val.inner ELSE ret.val

\* C7: in every SI-prefixed type both spellings of the micro prefix, "µ" + base
\* and "u" + base, parse, and both give the micro variant.
C7_MicroBothSpellings ==
  (/\ pc = "returned" /\ call.op \in ParseOps
   /\ call.T \in Multiplicative
   /\ call.text \in {<<"µ">> \o BaseSymbol(call.T), <<"u">> \o BaseSymbol(call.T)})
    => (ret.ok /\ Parsed = Micro(call.T))

\* C8: parsing is strict: a text that is not character for character a
\* canonical symbol of the type ("Pixel", "KM", " km") parses to no variant.
C8_Strict ==
  (pc = "returned" /\ call.op \in ParseOps /\ call.text \notin CanonicalSymbols(call.T))
    => ~ret.ok

C10_RoundTrip ==
  (pc = "returned" /\ call.op \in ParseOps /\ call.self # "-")
    => (ret.ok /\ Parsed = call.self /\ Parsed = held.v)

\* the {:?} text of UnitsTime::r#as was parsed
C10_RawIdentifierParsed ==
  /\ pc = "returned" /\ call.op = "from_str"
  /\ call.T = "UnitsTime" /\ call.self = "as"
  /\ call.text = fmt_debug("UnitsTime", "as")

-----------------------------------------------------------------------------
\* Properties of display

\* the calls that display a value
DisplayOps == {"fmt_debug", "serialize", "py_repr", "py_str"}

\* what the parse operation that reads the text of display operation op
\* returns for the text s, and the value in it
ParseFor(op, T, s) ==
  CASE op = "fmt_debug" -> from_str(T, s)
    [] op = "serialize" -> deserialize(T, s)
    [] OTHER -> Py_new(T, s)
ValueIn(op, r) == IF op \in {"py_repr", "py_str"} THEN r.val.inner ELSE r.val

\* the symbols display is to write: the canonical symbols, of the micro
\* prefix the spelling with the micro sign
DisplaySymbols(T) ==
  IF T \in Multiplicative
  THEN CanonicalSymbols(T) \ {<<"u">> \o BaseSymbol(T)}
  ELSE CanonicalSymbols(T)

\* what parsing s and displaying the value returns is s
DisplayOfParsed(op, T, s, r) ==
  r.ok /\ (ValueIn(op, r) = call.self => ret = Ok(s))

\* C11: display is the inverse of parse on the canonical symbols: every
\* canonical symbol s parses, and the display of the value it parses to is
\* exactly s ("µm", "mm Hg", "reference frame", "°C" included).
C11_DisplayInverse ==
  (pc = "returned" /\ call.op \in DisplayOps)
    => \A s \in DisplaySymbols(call.T) :
         DisplayOfParsed(call.op, call.T, s, ParseFor(call.op, call.T, s))

\* the entries of declaration d that the parse operation op matches with the text s
Matching(op, d, s) ==
  {i \in 1..Len(d) :
     (IF op = "deserialize" THEN serde_name_of(d[i]) ELSE from_str_name(d[i])) = s}

\* the text display operation op writes for value v of type T
DisplayOf(op, T, v) == IF op = "serialize" THEN serialize(T, v) ELSE fmt_debug(T, v)

\* C12: within a type, symbols and variants correspond one to one: a text
\* that parses matches exactly one variant, every variant is displayed as one
\* text, no other variant of the type is displayed as the same text, and the
\* symbol serialized is a canonical symbol of the type.
C12_Bijection ==
  /\ (pc = "returned" /\ call.op \in ParseOps /\ ret.ok)
       => Cardinality(Matching(call.op, decl(call.T), call.text)) = 1
  /\ (pc = "returned" /\ call.op \in DisplayOps)
       => /\ ret.ok
          /\ \A w \in Values(call.T) \ {call.self} : DisplayOf(call.op, call.T, w) # ret.val
  /\ Returned("serialize") => ret.val \in CanonicalSymbols(call.T)

\* C12 happens: UnitsLength::Pm was serialized as "Pm", which differs from the
\* symbol "pm" of UnitsLength::pm by letter case only
C12_Witness ==
  /\ Returned("serialize")
  /\ call.T = "UnitsLength" /\ call.self = "Pm"
  /\ ret = Ok(<<"P", "m">>)
  /\ serialize("UnitsLength", "pm") = <<"p", "m">>

-----------------------------------------------------------------------------
\* Properties of the SI factors

\* the lengths without a physical size
Unsized == {"Pixel", "ReferenceFrame"}

\* C13: in the six multiplicative types as_si returns a factor greater than
\* zero for every variant except UnitsLength::Pixel and
\* UnitsLength::ReferenceFrame, for which it fails with the size-unknown
\* error; so a convert that divides, divides by a factor greater than zero.
C13_PositiveFactor ==
  /\ (Returned("as_si") /\ call.T \in Multiplicative)
       => IF call.T = "UnitsLength" /\ call.self \in Unsized
          THEN ~ret.ok /\ SizeUnknown(ret.err)
          ELSE ret.ok /\ ret.val.n > 0 /\ ret.val.d > 0
  /\ (Returned("convert") /\ call.T \in Multiplicative /\ call.self # call.unit /\ ret.ok)
       => /\ as_si(call.T, call.unit).ok
          /\ as_si(call.T, call.unit).val.n > 0

\* C13 happens: as_si of UnitsTime::ys returned 1e-24, the smallest factor
C13_Witness ==
  /\ Returned("as_si")
  /\ call.T = "UnitsTime" /\ call.self = "ys"
  /\ ret = Ok(Dec(1, -24))
  /\ ret.val.n = 1

\* the kind of an error value: its type, and for an enum its variant
Kind(e) == e.type

\* C14: the failures are typed error kinds distinct as values: as_si of a
\* length without a size fails with Error::SizeOfUnknown carrying the variant,
\* as_si of a temperature with Error::TemparatureConversion, and a parse that
\* fails with neither of the two.
C14_TypedErrors ==
  /\ (Returned("as_si") /\ ~ret.ok /\ call.T = "UnitsLength")
       => /\ Kind(ret.err) = Kind(Error_SizeOfUnknown(ret.err.arg))
          /\ ret.err.arg \in {fmt_debug(call.T, call.self), serialize(call.T, call.self)}
  /\ (Returned("as_si") /\ ~ret.ok /\ call.T = "UnitsTemperature")
       => Kind(ret.err) = Kind(Error_TemparatureConversion)
  /\ (pc = "returned" /\ call.op \in ParseOps /\ ~ret.ok)
       => Kind(ret.err) \notin {Kind(Error_SizeOfUnknown(<<>>)), Kind(Error_TemparatureConversion)}
  /\ Kind(Error_SizeOfUnknown(<<>>)) # Kind(Error_TemparatureConversion)

\* the SI base unit of a multiplicative type
BaseUnit(T) ==
  CASE T = "UnitsLength" -> "m"
    [] T = "UnitsTime" -> "s"
    [] T = "UnitsFrequency" -> "Hz"
    [] T = "UnitsPower" -> "W"
    [] T = "UnitsPressure" -> "Pa"
    [] T = "UnitsElectricPotential" -> "V"

\* C15: in each multiplicative type the factor as_si returns is 1.0 for the
\* base unit (m, s, Hz, W, Pa, V) and for no other variant.
C15_OneBaseUnit ==
  (Returned("as_si") /\ call.T \in Multiplicative)
    => /\ BaseUnit(call.T) \in Values(call.T)
       /\ call.self = BaseUnit(call.T) => ret = Ok(Dec(1, 0))
       /\ call.self # BaseUnit(call.T) => ret # Ok(Dec(1, 0))

\* C15 happens: as_si of UnitsPressure::Pa returned 1.0
C15_Witness ==
  /\ Returned("as_si")
  /\ call.T = "UnitsPressure" /\ call.self = "Pa" /\ call.self = BaseUnit(call.T)
  /\ ret = Ok(Dec(1, 0))

\* the SI prefixes as the identifiers spell them, each with its exponent of ten
PrefixExponents ==
  {<<<<"Y">>, 24>>, <<<<"Z">>, 21>>, <<<<"E">>, 18>>, <<<<"P">>, 15>>, <<<<"T">>, 12>>,
   <<<<"G">>, 9>>, <<<<"M">>, 6>>, <<<<"k">>, 3>>, <<<<"h">>, 2>>, <<<<"d", "a">>, 1>>,
   <<<<>>, 0>>, <<<<"d">>, -1>>, <<<<"c">>, -2>>, <<<<"m">>, -3>>, <<<<"u">>, -6>>,
   <<<<"n">>, -9>>, <<<<"p">>, -12>>, <<<<"f">>, -15>>, <<<<"a">>, -18>>,
   <<<<"z">>, -21>>, <<<<"y">>, -24>>}

\* C16: in every multiplicative type each SI prefix has its variant, and the
\* factor as_si returns for the variant of a prefix is ten to the exponent of
\* the prefix; so convert(m, km, 1000.0) is 1.0 and convert(km, m, 1.0) is 1000.0.
C16_PrefixScale ==
  /\ (Returned("as_si") /\ call.T \in Multiplicative)
       => \A p \in PrefixExponents :
            /\ \E v \in Values(call.T) : fmt_debug(call.T, v) = p[1] \o BaseSymbol(call.T)
            /\ fmt_debug(call.T, call.self) = p[1] \o BaseSymbol(call.T)
                 => ret = Ok(Dec(1, p[2]))
  /\ (/\ Returned("convert") /\ call.T = "UnitsLength"
      /\ call.self = "m" /\ call.unit = "km" /\ call.value = Dec(1000, 0))
       => ret = Ok(Dec(1, 0))
  /\ (/\ Returned("convert") /\ call.T = "UnitsLength"
      /\ call.self = "km" /\ call.unit = "m" /\ call.value = Dec(1, 0))
       => ret = Ok(Dec(1000, 0))

\* C16 happens: convert(m, km, 1000.0) returned 1.0
C16_Witness ==
  /\ Returned("convert")
  /\ call.T = "UnitsLength" /\ call.self = "m" /\ call.unit = "km"
  /\ call.value = Dec(1000, 0)
  /\ as_si("UnitsLength", "km") = Ok(Dec(1, 3))
  /\ ret = Ok(Dec(1, 0))

\* C17: in a multiplicative type, converting a number from a to b and the
\* result back from b to a returns the number, for all a and b that have an
\* SI factor (exactly so in the exact arithmetic of the model).
C17_RoundTrip ==
  (Returned("convert_back") /\ call.T \in Multiplicative)
    => ret = Ok(call.first)

\* C17 happens: 1.0 mile was converted to points and the result back to miles
C17_Witness ==
  /\ Returned("convert_back")
  /\ call.T = "UnitsLength" /\ call.self = "Pt" /\ call.unit = "Mi"
  /\ call.first = Dec(1, 0)
  /\ call.value = RDiv(Dec(1609344, -3), Dec(352778, -9))
  /\ call.value # call.first
  /\ ret = Ok(Dec(1, 0))

\* C18: the factor of a time unit that is not SI-prefixed is its number of
\* seconds: as_si(min) = 60, as_si(h) = 3600, as_si(d) = 86400; and so
\* convert(h, min, 1.0) = 60, convert(h, s, 1.0) = 3600, convert(d, h, 1.0) = 24.
C18_TimeFactors ==
  /\ (Returned("as_si") /\ call.T = "UnitsTime")
       => /\ call.self = "min" => ret = Ok(Dec(60, 0))
          /\ call.self = "h" => ret = Ok(Dec(3600, 0))
          /\ call.self = "d" => ret = Ok(Dec(86400, 0))
  /\ (Returned("convert") /\ call.T = "UnitsTime" /\ call.value = Dec(1, 0))
       => /\ (call.self = "h" /\ call.unit = "min") => ret = Ok(Dec(60, 0))
          /\ (call.self = "h" /\ call.unit = "s") => ret = Ok(Dec(3600, 0))
          /\ (call.self = "d" /\ call.unit = "h") => ret = Ok(Dec(24, 0))

\* a < b, for two numbers
RLess(a, b) == RSub(b, a).n > 0

\* C19: the factors of the torr and mercury units are pascals per unit and
\* agree with each other: as_si(Torr) = as_si(mmHg) = 133.322,
\* as_si(Torr) = 1000 * as_si(mTorr), convert(Torr, mmHg, x) = x, and
\* convert(atm, Torr, 1.0) is 760 to less than 1.
C19_TorrFactors ==
  /\ (Returned("as_si") /\ call.T = "UnitsPressure" /\ call.self = "Torr")
       => /\ ret = as_si("UnitsPressure", "mmHg")
          /\ ret = Ok(Dec(133322, -3))
          /\ ret = Ok(RMul(Dec(1000, 0), as_si("UnitsPressure", "mTorr").val))
  /\ (Returned("convert") /\ call.T = "UnitsPressure"
        /\ call.self = "Torr" /\ call.unit = "mmHg")
       => ret = Ok(call.value)
  /\ (Returned("convert") /\ call.T = "UnitsPressure"
        /\ call.self = "atm" /\ call.unit = "Torr" /\ call.value = Dec(1, 0))
       => /\ ret.ok
          /\ RLess(Dec(759, 0), ret.val)
          /\ RLess(ret.val, Dec(761, 0))

\* C20: the factors of the imperial lengths are metres per unit and agree
\* with each other: 1 in = 1000 thou, 1 ft = 12 in, 1 yd = 3 ft, that is
\* convert(In, Thou, 1.0) = 1000, convert(Ft, In, 1.0) = 12, convert(Yd, Ft, 1.0) = 3.
C20_ImperialFactors ==
  /\ (Returned("as_si") /\ call.T = "UnitsLength")
       => /\ call.self = "Thou" => ret = Ok(Dec(254, -7))
          /\ call.self = "In" => ret = Ok(Dec(254, -4))
          /\ call.self = "Ft" => ret = Ok(Dec(3048, -4))
          /\ call.self = "Yd" => ret = Ok(Dec(9144, -4))
  /\ (Returned("convert") /\ call.T = "UnitsLength" /\ call.value = Dec(1, 0))
       => /\ (call.self = "In" /\ call.unit = "Thou") => ret = Ok(Dec(1000, 0))
          /\ (call.self = "Ft" /\ call.unit = "In") => ret = Ok(Dec(12, 0))
          /\ (call.self = "Yd" /\ call.unit = "Ft") => ret = Ok(Dec(3, 0))

-----------------------------------------------------------------------------
\* Properties of the temperature scales

TempConvert(a, b, x) ==
  /\ Returned("convert") /\ call.T = "UnitsTemperature"
  /\ call.self = a /\ call.unit = b /\ call.value = x

\* C21: the reference points of temperature convert exactly:
\* convert(C, K, 0.0) = 273.15, convert(F, C, 32.0) = 0.0,
\* convert(K, F, 0.0) = -459.67 and convert(R, C, 491.67) = 0.0.
C21_ReferencePoints ==
  /\ TempConvert("C", "K", Dec(0, 0)) => ret = Ok(Dec(27315, -2))
  /\ TempConvert("F", "C", Dec(32, 0)) => ret = Ok(Dec(0, 0))
  /\ TempConvert("K", "F", Dec(0, 0)) => ret = Ok(Dec(-45967, -2))
  /\ TempConvert("R", "C", Dec(49167, -2)) => ret = Ok(Dec(0, 0))

\* C21 happens: convert(R, C, 491.67) returned 0.0
C21_Witness == TempConvert("R", "C", Dec(49167, -2)) /\ ret = Ok(Dec(0, 0))

\* the error of an as_si that has no factor to give for a temperature
NoFactor(r) == ~r.ok /\ r.err = anyhow("No conversion to K by multiplication only")

\* what the default method would make of the numbers as_si returns for a and b
Placeholder(a, b, x) ==
  RDiv(RMul(x, as_si("UnitsTemperature", a).val), as_si("UnitsTemperature", b).val)

C22_WitnessConvert ==
  /\ TempConvert("K", "R", Dec(1, 0))
  /\ ret = Ok(Dec(18, -1))
  /\ Placeholder("K", "R", Dec(1, 0)) = Dec(18, 0)

-----------------------------------------------------------------------------
\* Properties of variants

\* the number of variants the specification gives for each type
DeclaredCount(T) ==
  CASE T = "UnitsElectricPotential" -> 21
    [] T = "UnitsFrequency" -> 21
    [] T = "UnitsLength" -> 34
    [] T = "UnitsPower" -> 21
    [] T = "UnitsPressure" -> 32
    [] T = "UnitsTemperature" -> 4
    [] T = "UnitsTime" -> 24

\* seq lists every element of S exactly once
ListsOnce(seq, S) ==
  /\ {seq[i] : i \in 1..Len(seq)} = S
  /\ \A i, j \in 1..Len(seq) : seq[i] = seq[j] => i = j

\* seq is in the order of the declarations d
InDeclarationOrder(seq, d) ==
  /\ Len(seq) = Len(d)
  /\ \A i \in 1..Len(seq) : seq[i] = d[i].ident

\* C23: variants() of a type returns every declared variant exactly once, in
\* the order of declaration, the same on every call; its length is the
\* declared count (21, 21, 34, 21, 32, 4, 24).
C23_Variants ==
  Returned("variants")
    => /\ ret.ok
       /\ ListsOnce(ret.val, Values(call.T))
       /\ InDeclarationOrder(ret.val, decl(call.T))
       /\ Len(ret.val) = DeclaredCount(call.T)

\* C23 happens: UnitsTemperature::variants() returned [C, F, K, R], called
\* while the caller held a value
C23_Witness ==
  /\ Returned("variants") /\ call.T = "UnitsTemperature"
  /\ held # NoValue
  /\ ret = Ok(<<"C", "F", "K", "R">>)

-----------------------------------------------------------------------------
\* Properties of concurrent calls

\* what call c returns when it is the only call made
Alone(c) ==
  CASE c.op = "convert" -> convert(c.T, c.self, c.unit, c.value).ret
    [] c.op = "as_si" -> as_si(c.T, c.self)
    [] c.op = "from_str" -> from_str(c.T, c.text)
    [] c.op = "variants" -> Ok(variants(c.T))

\* C24: parse, as_si, convert and variants share no state: however the calls
\* of several threads interleave, each call returns what it returns when made
\* alone, whatever calls were made before it.
C24_Isolation ==
  \A t \in Threads :
    threads[t].pc = "returned" => threads[t].ret = Alone(threads[t].call)

\* C24 happens: convert(m, km, 1.0) of one thread returned 0.001 while
\* convert(km, m, 1.0) of the other was between its two calls of as_si
C24_Witness ==
  /\ threads["t1"].pc = "returned"
  /\ threads["t1"].call = Call("convert", "UnitsLength", "m", "km", Dec(1, 0), NoText)
  /\ threads["t1"].ret = Ok(Dec(1, -3))
  /\ threads["t2"].pc = "self_si"
  /\ threads["t2"].call = Call("convert", "UnitsLength", "km", "m", Dec(1, 0), NoText)

-----------------------------------------------------------------------------
\* Properties of the Python classes

\* the names that Class.variants() of type T lists
Listed(T) == {Py_variants(T)[i] : i \in 1..Len(Py_variants(T))}

\* the error of a text that new and convert do not take for a unit
IsInvalidUnit(r) == ~r.ok /\ r.err.type = "PyValueError" /\ r.err.msg = "Invalid unit: {}"

\* C25: every name n that Class.variants() lists can be constructed and
\* converted into: Class(n) succeeds and makes the variant whose name n is,
\* and obj.convert(n, value) does not fail with 'Invalid unit'.
\* Whether this holds for "as" of Time rests on raw_kept, as in C10.
C25_ListedNamesUsable ==
  /\ (Returned("py_new") /\ call.text \in Listed(call.T))
       => (ret.ok /\ fmt_debug(call.T, ret.val.inner) = call.text)
  /\ (Returned("py_convert") /\ call.text \in Listed(call.T))
       => ~IsInvalidUnit(ret)

\* C25 without the one name for which the build decides
C25_ListedPlainNamesUsable ==
  /\ (Returned("py_new") /\ call.text \in Listed(call.T) \ {fmt_debug("UnitsTime", "as")})
       => (ret.ok /\ fmt_debug(call.T, ret.val.inner) = call.text)
  /\ (Returned("py_convert") /\ call.text \in Listed(call.T) \ {fmt_debug("UnitsTime", "as")})
       => ~IsInvalidUnit(ret)

\* C25 where derive(FromStr) drops the r# of a raw identifier
C25_ListedNamesUsableUnraw == ~raw_kept => C25_ListedNamesUsable

\* Time("as") was evaluated, "as" being a name that Time.variants() lists
C25_ListedRawName ==
  /\ Returned("py_new") /\ call.T = "UnitsTime"
  /\ call.text = <<"a", "s">> /\ call.text \in Listed(call.T)

\* the call of Constructor on the pair that __reduce__ of a held object returned
Unpickled == Returned("constructor_call") /\ call.self # "-"

\* C26: a pickle round trip reconstructs the unit: Constructor called with
\* the (class name, variant text) pair of __reduce__ succeeds and makes an
\* object of the same class with the same inner variant, for every variant of
\* the seven classes; a class name outside the seven gives an error.
\* Whether this holds for UnitsTime::r#as rests on raw_kept, as in C10.
C26_PickleRoundTrip ==
  /\ Unpickled => ret = Ok(PyObj(call.T, call.self))
  /\ (Returned("constructor_call") /\ call.class \notin ConstructorClasses)
       => (~ret.ok /\ ret.err.msg = "cannot parse class {}" /\ ret.err.arg = call.class)

\* C26 without the one variant for which the build decides
C26_PickleRoundTripPlain ==
  /\ (Unpickled /\ <<call.T, call.self>> # <<"UnitsTime", "as">>)
       => ret = Ok(PyObj(call.T, call.self))
  /\ (Returned("constructor_call") /\ call.class \notin ConstructorClasses)
       => (~ret.ok /\ ret.err.msg = "cannot parse class {}" /\ ret.err.arg = call.class)

\* C26 where derive(FromStr) drops the r# of a raw identifier
C26_PickleRoundTripUnraw == ~raw_kept => C26_PickleRoundTrip

\* the pickle of a Time object holding UnitsTime::r#as was unpickled
C26_RawIdentifierUnpickled ==
  /\ Unpickled /\ call.T = "UnitsTime" /\ call.self = "as"
  /\ call.class = "Time" /\ call.text = <<"a", "s">>

\* Constructor was called with a class name outside the seven
C26_OtherClass ==
  /\ Returned("constructor_call") /\ call.class = "UnitsLength"
  /\ ~ret.ok

-----------------------------------------------------------------------------
\* Properties of the two parsers

\* two parse results are the same variant, or both are failures
SameVariant(r1, r2) == (r1.ok <=> r2.ok) /\ (r1.ok => r1.val = r2.val)

\* the variant in what the Python constructor returned
InnerOf(r) == IF r.ok THEN Ok(r.val.inner) ELSE r

\* C27: the two ways from a text to a unit agree: str::parse (the FromStr of
\* the Python classes) gives variant v for a text exactly if the serde
\* deserializer of the XML attributes gives v for it, so that "µm", "pixel",
\* "mm Hg", "°C" are treated as "um", "Pixel", "mmHg", "C" are by both.
C27_PathsAgree ==
  /\ Returned("from_str") => SameVariant(ret, deserialize(call.T, call.text))
  /\ Returned("py_new") => SameVariant(InnerOf(ret), deserialize(call.T, call.text))
  /\ Returned("deserialize") => SameVariant(ret, from_str(call.T, call.text))

-----------------------------------------------------------------------------
\* Properties of chains of temperature conversions

\* C28: a temperature conversion and the conversion back give the value
\* again, exactly: convert(b, a, convert(a, b, x)) = x for every ordered pair
\* of temperature scales a, b and every value x.
C28_TemperatureRoundTrip ==
  (Returned("convert_back") /\ call.T = "UnitsTemperature")
    => ret = Ok(call.first)

\* C28 happens: convert(C, F, 1.0) returned 33.8 and convert(F, C, 33.8) returned 1.0
C28_Witness ==
  /\ Returned("convert_back") /\ call.T = "UnitsTemperature"
  /\ call.self = "F" /\ call.unit = "C"
  /\ call.first = Dec(1, 0) /\ call.value = Dec(338, -1)
  /\ ret = Ok(Dec(1, 0))

\* C29: temperature conversions do not depend on the path: converting from a
\* to b and on to c gives what converting from a to c gives, exactly, for all
\* scales a, b, c and every value; the scales share the absolute zero
\* 0 K = 0 R = -273.15 C = -459.67 F.
C29_PathIndependent ==
  /\ (Returned("convert_on") /\ call.T = "UnitsTemperature")
       => ret = convert(call.T, call.from, call.unit, call.first).ret
  /\ TempConvert("K", "R", Dec(0, 0)) => ret = Ok(Dec(0, 0))
  /\ TempConvert("K", "C", Dec(0, 0)) => ret = Ok(Dec(-27315, -2))
  /\ TempConvert("K", "F", Dec(0, 0)) => ret = Ok(Dec(-45967, -2))

\* C29 happens: convert(F, K, 32.0) returned 273.15 and convert(K, C, 273.15)
\* returned 0.0, which is convert(F, C, 32.0)
C29_Witness ==
  /\ Returned("convert_on") /\ call.T = "UnitsTemperature"
  /\ call.from = "F" /\ call.self = "K" /\ call.unit = "C"
  /\ call.first = Dec(32, 0) /\ call.value = Dec(27315, -2)
  /\ ret = Ok(Dec(0, 0))

-----------------------------------------------------------------------------
\* Properties of the order of evaluation

\* C30: the default convert of two different units calls as_si of the source
\* first, and as_si of the target only if that succeeded: the error of a
\* source without a factor is the one returned, also when the target has none
\* (convert(Pixel, ReferenceFrame, x) fails with the error of Pixel).
C30_ErrorPrecedence ==
  (Returned("convert") /\ call.T \in Multiplicative /\ call.self # call.unit)
    => /\ as_si(call.T, call.self).ok => si_calls = <<call.self, call.unit>>
       /\ ~as_si(call.T, call.self).ok
            => (si_calls = <<call.self>> /\ ret = as_si(call.T, call.self))

\* C30 happens: convert(Pixel, ReferenceFrame, 1.0) failed with the error of
\* Pixel, and as_si of ReferenceFrame was not called
C30_Witness ==
  /\ Returned("convert") /\ call.T = "UnitsLength"
  /\ call.self = "Pixel" /\ call.unit = "ReferenceFrame" /\ call.value = Dec(1, 0)
  /\ ret = Err(anyhow("Size of pixel is unknown"))
  /\ si_calls = <<"Pixel">>

====
